---- MODULE Spec2Model ----
(***************************************************************************)
(* Release-publishing coordinator of makepad-packaging-action:             *)
(* src/src/release/index.ts (ensureRelease, cleanupDuplicateReleases,      *)
(* uploadReleaseAssets, uploadUpdaterJson), src/src/utils.ts (retry,       *)
(* normalizeTagName) and the run() entry point (src/unnamed/part_002).     *)
(*                                                                         *)
(* Every remote call of the code is one atomic step of the process that    *)
(* issues it; the remote store may change between any two steps.           *)
(***************************************************************************)
EXTENDS Integers, Sequences, FiniteSets, TLC

VARIABLES
    releases,   \* remote store: release id -> release record (live releases only)
    tagRef,     \* remote store: does refs/tags/<tag> exist
    clock,      \* remote store: the clock that stamps created_at (one-second ticks)
    nextId,     \* remote store: next release id
    nextAsset,  \* remote store: next asset id
    listDesc,   \* remote store: list-releases returns newest first (TRUE) or oldest first
    rejectDup,  \* remote store: upload of an asset name already on the release is a 422
    cfg,        \* per process: the inputs of its run (fixed after Init)
    pc,         \* per process: position in run / ensureRelease / upload / cleanup
    loc,        \* per process: local variables of the call in progress
    ret,        \* per process: sequence of ids returned by its ensureRelease calls
    log         \* history: remote mutations issued so far (set of records)

storeVars == <<releases, tagRef, clock, nextId, nextAsset, listDesc, rejectDup>>
procVars == <<cfg, pc, loc, ret>>
vars == <<releases, tagRef, clock, nextId, nextAsset, listDesc, rejectDup, cfg, pc, loc, ret, log>>

----------------------------------------------------------------------------
(* Values *)

Procs == {1, 2, 3}

None == 0                \* null / undefined id
NoStr == ""              \* undefined or empty string input
TagName == "v1"          \* the normalized tag every run targets
OtherTag == "v0"         \* a tag of the repository no run targets

\* asset names: the k-th installer of a Linux build under its default name, and
\* the updater manifest
File(k) == "app-linux-x86_64-" \o ToString(k) \o ".deb"
UPDATER_JSON_ASSET_NAME == "latest.json"

\* per_page of the single-page repos.listReleaseAssets calls in cleanupDuplicateReleases
PER_PAGE == 100

\* retry budgets written in ensureRelease
POLL_ATTEMPTS == 5
RECHECK_ATTEMPTS == 2
CONFLICT_ATTEMPTS == 3
STABILIZE_ATTEMPTS == 5

\* how many calls of one run the store may answer with a 403
MaxDenied == 1

\* the store clock stops ticking at MaxClock (created_at stays comparable)
MaxClock == 3

----------------------------------------------------------------------------
(* Sequences helpers *)

RECURSIVE SetToSeqAsc(_)
SetToSeqAsc(S) ==
    IF S = {} THEN <<>>
    ELSE LET m == CHOOSE x \in S : \A y \in S : x <= y
         IN <<m>> \o SetToSeqAsc(S \ {m})

Reverse(s) == [i \in 1..Len(s) |-> s[Len(s) + 1 - i]]

Range(s) == {s[i] : i \in 1..Len(s)}

----------------------------------------------------------------------------
(* Remote store reads *)

\* repos.listReleases (paginated): every live release, in the store's listing order
listReleases ==
    LET asc == SetToSeqAsc(DOMAIN releases)
    IN IF listDesc THEN Reverse(asc) ELSE asc

\* listReleasesByTag with the filter comparing against the tag as a full ref
listReleasesByTag_RawRef(tagName) ==
    SelectSeq(listReleases, LAMBDA i : releases[i].tag = "refs/tags/" \o tagName)

\* listReleasesByTag: the listing filtered by tag_name === tagName
listReleasesByTag(tagName) ==
    SelectSeq(listReleases, LAMBDA i : releases[i].tag = tagName)

\* Array.prototype.sort with (a, b) => aTime - bTime: stable, ascending created_at
RECURSIVE sortByCreatedAt(_)
sortByCreatedAt(ids) ==
    IF Len(ids) <= 1 THEN ids
    ELSE LET n == Len(ids)
             front == sortByCreatedAt(SubSeq(ids, 1, n - 1))
             x == ids[n]
             le == SelectSeq(front, LAMBDA i : releases[i].created_at <= releases[x].created_at)
             gt == SelectSeq(front, LAMBDA i : releases[i].created_at > releases[x].created_at)
         IN le \o <<x>> \o gt

\* repos.getReleaseByTag: the published release carrying the tag (drafts are not
\* reachable by tag); the empty set stands for the 404
getReleaseByTag(tagName) ==
    {i \in DOMAIN releases : releases[i].tag = tagName /\ ~releases[i].draft}

\* asset names of a live release
assetNames(i) == {releases[i].assets[k].name : k \in 1..Len(releases[i].assets)}

----------------------------------------------------------------------------
(* Process-local state *)

NoSnap == [name |-> NoStr, body |-> NoStr, draft |-> FALSE, prerelease |-> FALSE]

\* the version, notes and pub_date of a document that has none
NoHead == [version |-> NoStr, notes |-> NoStr, pub_date |-> NoStr]

\* locals of one ensureRelease call, before its first statement
InitLoc ==
    [phase |-> "initial",   \* which findReleaseByTag call site is running
     n |-> 1,               \* attempt counter of the retry / stabilization loop running
     found |-> None,        \* existing / waited: the release about to be updated
     snap |-> NoSnap,       \* its name, body, draft, prerelease as fetched
     tagLock |-> "none",    \* result of ensureTagRef
     created |-> None,      \* created.data.id
     createdAt |-> None,    \* created.data.created_at
     lastKey |-> <<>>,      \* lastKey of the stabilization loop (<<>> is null)
     resolved |-> <<>>,     \* resolved of the stabilization loop: ids, canonical first
     creates |-> 0,         \* repos.createRelease calls issued so far by this call
     attempt |-> 1,         \* retry(): attempt
     lastError |-> None,    \* retry(): lastError, the attempt whose fn threw it
     invoked |-> <<>>,      \* retry(): the attempts at which fn was invoked, in order
     notified |-> <<>>,     \* retry(): the attempt arguments of the onRetry calls, in order
     canonical |-> None,    \* stabilized.canonical.id
     rel |-> None,          \* releaseId of the upload calls / keepReleaseId of the cleanup
     stage |-> "assets",    \* which list-delete-upload loop runs: "assets" or "manifest"
     idx |-> 1,             \* index of the asset name being uploaded
     att |-> 1,             \* attempt counter of retry() around list-delete-upload
     existing |-> None,     \* existing.id / staleUpdaterAsset.id about to be deleted
     filtered |-> <<>>,     \* filteredArtifacts of uploadReleaseAssets
     uploaded |-> {},       \* names in uploadedAssets
     doc |-> <<>>,          \* payload.platforms being written: key -> entry
     head |-> NoHead,       \* payload.version, payload.notes, payload.pub_date
     listed |-> <<>>,       \* releaseAssets of uploadUpdaterJson, as listed
     summary |-> <<>>,      \* releaseSummary of run(), in a sequence: <<>> is null
     resolvedReleaseTag |-> NoStr,  \* the tag in the URLs of uploadUpdaterJson
     tagName |-> NoStr,     \* resolved_tag of run(), then tagName of ensureRelease
     sorted |-> <<>>,       \* cleanup: releases of the tag as listed and sorted
     stamps |-> <<>>,       \* cleanup: their created_at, in the same order
     keep |-> None,         \* cleanup: keep.id
     keepNames |-> {},      \* cleanup: keepAssetNames
     k |-> 1]               \* cleanup: index of the loop over sorted

Snapshot(i) ==
    [name |-> releases[i].name, body |-> releases[i].body,
     draft |-> releases[i].draft, prerelease |-> releases[i].prerelease]

\* Boolean(releaseName || releaseBody)
shouldUpdate(p) == cfg[p].releaseName # NoStr \/ cfg[p].releaseBody # NoStr

LogEntry(op, p, rel, names, canon, canonNames) ==
    [op |-> op, by |-> p, rel |-> rel, names |-> names, canon |-> canon,
     canonNames |-> canonNames]

----------------------------------------------------------------------------
(* ensureRelease *)

\* return { id, html_url } of ensureRelease
Return(p, id) ==
    /\ ret' = [ret EXCEPT ![p] = Append(@, id)]
    /\ pc' = [pc EXCEPT ![p] = "er_done"]
    /\ loc' = loc

\* a release was found by the initial lookup or by the poll after 'exists':
\* reuse it unchanged, or go on to update it in place
Found(p, id) ==
    IF shouldUpdate(p)
    THEN /\ pc' = [pc EXCEPT ![p] = "er_update"]
         /\ loc' = [loc EXCEPT ![p].found = id, ![p].snap = Snapshot(id)]
         /\ ret' = ret
    ELSE Return(p, id)

\* the call sites, with the release found by the poll returned as it is
AfterFind_PollReturns(p, id) ==
    LET again(limit, onExhausted) ==
            IF loc[p].n < limit
            THEN /\ pc' = [pc EXCEPT ![p] = "er_direct"]
                 /\ loc' = [loc EXCEPT ![p].n = @ + 1]
                 /\ ret' = ret
            ELSE onExhausted
    IN CASE loc[p].phase = "initial" ->
              IF id # None THEN Found(p, id)
              ELSE /\ pc' = [pc EXCEPT ![p] = "er_tagref"]
                   /\ UNCHANGED <<loc, ret>>
         [] loc[p].phase = "poll" ->
              IF id # None THEN Return(p, id)
              ELSE again(POLL_ATTEMPTS,
                         /\ pc' = [pc EXCEPT ![p] = "er_direct"]
                         /\ loc' = [loc EXCEPT ![p].phase = "recheck", ![p].n = 1]
                         /\ ret' = ret)
         [] loc[p].phase = "recheck" ->
              IF id # None THEN Return(p, id)
              ELSE again(RECHECK_ATTEMPTS,
                         /\ pc' = [pc EXCEPT ![p] = "er_create"]
                         /\ UNCHANGED <<loc, ret>>)
         [] loc[p].phase = "conflict" ->
              IF id # None THEN Return(p, id)
              ELSE again(CONFLICT_ATTEMPTS,
                         /\ pc' = [pc EXCEPT ![p] = "er_fail"]
                         /\ UNCHANGED <<loc, ret>>)

\* findReleaseByTag, first remote call: the exact tag lookup

\* what each call site of findReleaseByTag does with its result (None is null)
AfterFind(p, id) ==
    LET again(limit, onExhausted) ==
            IF loc[p].n < limit
            THEN /\ pc' = [pc EXCEPT ![p] = "er_direct"]
                 /\ loc' = [loc EXCEPT ![p].n = @ + 1]
                 /\ ret' = ret
            ELSE onExhausted
    IN CASE loc[p].phase = "initial" ->
              IF id # None THEN Found(p, id)
              ELSE /\ pc' = [pc EXCEPT ![p] = "er_tagref"]
                   /\ UNCHANGED <<loc, ret>>
         [] loc[p].phase = "poll" ->
              IF id # None THEN Found(p, id)
              ELSE again(POLL_ATTEMPTS,
                         /\ pc' = [pc EXCEPT ![p] = "er_direct"]
                         /\ loc' = [loc EXCEPT ![p].phase = "recheck", ![p].n = 1]
                         /\ ret' = ret)
         [] loc[p].phase = "recheck" ->
              IF id # None THEN Return(p, id)
              ELSE again(RECHECK_ATTEMPTS,
                         /\ pc' = [pc EXCEPT ![p] = "er_create"]
                         /\ UNCHANGED <<loc, ret>>)
         [] loc[p].phase = "conflict" ->
              IF id # None THEN Return(p, id)
              ELSE again(CONFLICT_ATTEMPTS,
                         /\ pc' = [pc EXCEPT ![p] = "er_fail"]
                         /\ UNCHANGED <<loc, ret>>)

\* findReleaseByTag, first remote call: the exact tag lookup
FindDirect(p) ==
    /\ pc[p] = "er_direct"
    /\ IF getReleaseByTag(TagName) # {}
       THEN \E i \in getReleaseByTag(TagName) : AfterFind(p, i)
       ELSE /\ pc' = [pc EXCEPT ![p] = "er_list"]
            /\ UNCHANGED <<loc, ret>>
    /\ UNCHANGED <<storeVars, cfg, log>>

\* the second remote call returning the first listed release of the tag
FindList_FirstListed(p) ==
    /\ pc[p] = "er_list"
    /\ LET matches == listReleasesByTag(TagName)
       IN IF Len(matches) = 0 THEN AfterFind(p, None)
          ELSE AfterFind(p, matches[1])
    /\ UNCHANGED <<storeVars, cfg, log>>

\* findReleaseByTag, second remote call: list, filter by tag, earliest created_at
FindList(p) ==
    /\ pc[p] = "er_list"
    /\ LET matches == listReleasesByTag(TagName)
       IN IF Len(matches) = 0 THEN AfterFind(p, None)
          ELSE AfterFind(p, sortByCreatedAt(matches)[1])
    /\ UNCHANGED <<storeVars, cfg, log>>

\* repos.updateRelease on the found release: name and body from the caller,
\* draft and prerelease as fetched; a release deleted meanwhile is a 404, thrown
UpdateRelease(p) ==
    /\ pc[p] = "er_update"
    /\ LET i == loc[p].found
       IN IF i \in DOMAIN releases
          THEN /\ releases' =
                    [releases EXCEPT
                       ![i].name = IF cfg[p].releaseName # NoStr THEN cfg[p].releaseName
                                   ELSE IF loc[p].snap.name # NoStr THEN loc[p].snap.name
                                   ELSE TagName,
                       ![i].body = IF cfg[p].releaseBody # NoStr THEN cfg[p].releaseBody
                                   ELSE @,
                       ![i].draft = loc[p].snap.draft,
                       ![i].prerelease = loc[p].snap.prerelease]
               /\ log' = log \cup {LogEntry("update", p, i, {}, None, {})}
               /\ Return(p, i)
          ELSE /\ pc' = [pc EXCEPT ![p] = "er_fail"]
               /\ UNCHANGED <<releases, log, loc, ret>>
    /\ UNCHANGED <<tagRef, clock, nextId, nextAsset, listDesc, rejectDup, cfg>>

\* the commitish of the call names a commit the repository does not have
UnknownCommit(p) == "commitish" \in DOMAIN cfg[p] /\ cfg[p].commitish = "unknown"

\* ensureTagRef: git.createRef succeeds when the ref is absent ('created');
\* otherwise the store answers 422 and the ref is looked up next
EnsureTagRef(p) ==
    /\ pc[p] = "er_tagref"
    /\ tagRef \/ ~UnknownCommit(p)
    /\ IF ~tagRef
       THEN /\ tagRef' = TRUE
            /\ log' = log \cup {LogEntry("createRef", p, None, {}, None, {})}
            /\ pc' = [pc EXCEPT ![p] = "er_direct"]
            /\ loc' = [loc EXCEPT ![p].tagLock = "created", ![p].phase = "recheck",
                                  ![p].n = 1]
       ELSE /\ pc' = [pc EXCEPT ![p] = "er_getref"]
            /\ UNCHANGED <<tagRef, log, loc>>
    /\ UNCHANGED <<releases, clock, nextId, nextAsset, listDesc, rejectDup, cfg, ret>>

\* ensureTagRef after the 422: git.getRef finds the ref ('exists'), and the
\* caller polls the lookup; or it answers 404, which is a warning and 'skipped',
\* and the caller goes on to the lookup before the create
GetTagRef(p) ==
    /\ pc[p] = "er_getref"
    /\ pc' = [pc EXCEPT ![p] = "er_direct"]
    /\ IF tagRef
       THEN loc' = [loc EXCEPT ![p].tagLock = "exists", ![p].phase = "poll", ![p].n = 1]
       ELSE loc' = [loc EXCEPT ![p].tagLock = "skipped", ![p].phase = "recheck", ![p].n = 1]
    /\ UNCHANGED <<storeVars, cfg, ret, log>>

\* the release repos.createRelease stores: name is releaseName || tagName
NewRelease(p, at) ==
    [tag |-> TagName, created_at |-> at,
     draft |-> cfg[p].draft, prerelease |-> cfg[p].prerelease,
     name |-> IF cfg[p].releaseName # NoStr THEN cfg[p].releaseName ELSE TagName,
     body |-> cfg[p].releaseBody,
     assets |-> <<>>]

\* repos.createRelease with the 422 of a concurrent creator answered by the
\* lookups that precede a create
StoreRelease_Recheck(p) ==
    IF ~cfg[p].draft /\ getReleaseByTag(TagName) # {}
    THEN /\ pc' = [pc EXCEPT ![p] = "er_direct"]
         /\ loc' = [loc EXCEPT ![p].phase = "recheck", ![p].n = 1, ![p].creates = @ + 1]
         /\ UNCHANGED <<releases, tagRef, clock, nextId, log>>
    ELSE \E at \in {clock, clock + 1} :
         /\ at <= MaxClock
         /\ releases' = [i \in DOMAIN releases \cup {nextId} |->
                           IF i = nextId THEN NewRelease(p, at) ELSE releases[i]]
         /\ clock' = at
         /\ nextId' = nextId + 1
         /\ tagRef' = (tagRef \/ ~cfg[p].draft)
         /\ log' = log \cup {LogEntry("create", p, nextId, {}, None, {})}
         /\ pc' = [pc EXCEPT ![p] = "er_stab"]
         /\ loc' = [loc EXCEPT ![p].created = nextId, ![p].createdAt = at,
                               ![p].n = 1, ![p].lastKey = <<>>, ![p].resolved = <<>>,
                               ![p].creates = @ + 1]

\* what repos.createRelease does once the commit is accepted: the store refuses
\* a second published release for a tag with a 422, which ensureRelease's outer
\* catch turns into the conflict lookup; otherwise the release is stored,
\* stamped with the store's clock
StoreRelease(p) ==
    IF ~cfg[p].draft /\ getReleaseByTag(TagName) # {}
    THEN /\ pc' = [pc EXCEPT ![p] = "er_direct"]
         /\ loc' = [loc EXCEPT ![p].phase = "conflict", ![p].n = 1, ![p].creates = @ + 1]
         /\ UNCHANGED <<releases, tagRef, clock, nextId, log>>
    ELSE \E at \in {clock, clock + 1} :
         /\ at <= MaxClock
         /\ releases' = [i \in DOMAIN releases \cup {nextId} |->
                           IF i = nextId THEN NewRelease(p, at) ELSE releases[i]]
         /\ clock' = at
         /\ nextId' = nextId + 1
         /\ tagRef' = (tagRef \/ ~cfg[p].draft)
         /\ log' = log \cup {LogEntry("create", p, nextId, {}, None, {})}
         /\ pc' = [pc EXCEPT ![p] = "er_stab"]
         /\ loc' = [loc EXCEPT ![p].created = nextId, ![p].createdAt = at,
                               ![p].n = 1, ![p].lastKey = <<>>, ![p].resolved = <<>>,
                               ![p].creates = @ + 1]

\* a published release of a tag without ref is made from target_commitish: the
\* store answers 422 when it does not have that commit
CommitRejected(p) == ~tagRef /\ ~cfg[p].draft /\ UnknownCommit(p)

\* createRelease(resolvedCommitish) with every 422 taken for one about the commit
CreateRelease_Any422(p) ==
    /\ pc[p] = "er_create"
    /\ IF CommitRejected(p) \/ (~cfg[p].draft /\ getReleaseByTag(TagName) # {})
       THEN /\ pc' = [pc EXCEPT ![p] = "er_create2"]
            /\ loc' = [loc EXCEPT ![p].creates = @ + 1]
            /\ UNCHANGED <<releases, tagRef, clock, nextId, log>>
       ELSE StoreRelease(p)
    /\ UNCHANGED <<nextAsset, listDesc, rejectDup, cfg, ret>>

\* createRelease(resolvedCommitish): a 422 about the commit is caught and the
\* call is made again without target_commitish
CreateRelease(p) ==
    /\ pc[p] = "er_create"
    /\ IF CommitRejected(p)
       THEN /\ pc' = [pc EXCEPT ![p] = "er_create2"]
            /\ loc' = [loc EXCEPT ![p].creates = @ + 1]
            /\ UNCHANGED <<releases, tagRef, clock, nextId, log>>
       ELSE StoreRelease(p)
    /\ UNCHANGED <<nextAsset, listDesc, rejectDup, cfg, ret>>

\* createRelease(undefined): the store takes the head of the default branch
CreateWithoutCommitish(p) ==
    /\ pc[p] = "er_create2"
    /\ StoreRelease(p)
    /\ UNCHANGED <<nextAsset, listDesc, rejectDup, cfg, ret>>

\* the created release returned whatever the canonical one is
AfterStabilize_Created(p, canonical) == Return(p, loc[p].created)

\* after resolveCanonicalReleaseWithStabilization returned canonical (None is null)
AfterStabilize(p, canonical) ==
    IF canonical # None /\ canonical # loc[p].created
    THEN /\ pc' = [pc EXCEPT ![p] = "er_delete"]
         /\ loc' = [loc EXCEPT ![p].canonical = canonical]
         /\ ret' = ret
    ELSE Return(p, loc[p].created)

\* the stabilization poll without its attempt limit
Stabilize_Unbounded(p) ==
    /\ pc[p] = "er_stab"
    /\ LET sorted == sortByCreatedAt(listReleasesByTag(TagName))
           canonical == IF Len(sorted) = 0 THEN None ELSE sorted[1]
       IN IF canonical # None /\ sorted = loc[p].lastKey
          THEN AfterStabilize(p, canonical)
          ELSE /\ loc' = [loc EXCEPT ![p].resolved = sorted,
                                     ![p].lastKey = IF canonical # None THEN sorted ELSE @]
               /\ UNCHANGED <<pc, ret>>
    /\ UNCHANGED <<storeVars, cfg, log>>

\* one poll of resolveCanonicalReleaseWithStabilization: list the releases of
\* the tag, sort by created_at; stop when the id list equals the previous poll's
Stabilize(p) ==
    /\ pc[p] = "er_stab"
    /\ LET sorted == sortByCreatedAt(listReleasesByTag(TagName))
           canonical == IF Len(sorted) = 0 THEN None ELSE sorted[1]
       IN IF canonical # None /\ sorted = loc[p].lastKey
          THEN AfterStabilize(p, canonical)
          ELSE IF loc[p].n < STABILIZE_ATTEMPTS
               THEN /\ loc' = [loc EXCEPT ![p].n = @ + 1,
                                          ![p].resolved = sorted,
                                          ![p].lastKey = IF canonical # None THEN sorted ELSE @]
                    /\ UNCHANGED <<pc, ret>>
               ELSE AfterStabilize(p, canonical)
    /\ UNCHANGED <<storeVars, cfg, log>>

\* the delete of the just-created release; a failure (the release is gone) is
\* caught and logged, and the canonical release is returned either way
DeleteCreated(p) ==
    /\ pc[p] = "er_delete"
    /\ LET i == loc[p].created
           c == loc[p].canonical
       IN /\ IF i \in DOMAIN releases
             THEN /\ releases' = [j \in DOMAIN releases \ {i} |-> releases[j]]
                  /\ log' = log \cup
                       {LogEntry("deleteCreated", p, i, assetNames(i), c,
                                 IF c \in DOMAIN releases THEN assetNames(c) ELSE {})}
             ELSE UNCHANGED <<releases, log>>
          /\ Return(p, c)
    /\ UNCHANGED <<tagRef, clock, nextId, nextAsset, listDesc, rejectDup, cfg>>

\* the calls of process p so far that the store answered with a 403
Denials(p) == {e \in log : e.op = "denied" /\ e.by = p}

\* the store answers the next call of p with a 403, the k-th it answers so
Denied(p) ==
    /\ Cardinality(Denials(p)) < MaxDenied
    /\ log' = log \cup {LogEntry("denied", p, None, {}, Cardinality(Denials(p)) + 1, {})}

\* findReleaseByTag throws a 403 from either of its calls: the error leaves
\* ensureRelease from the initial lookup; inside retry() it is caught like
\* 'Release not visible yet.': the next attempt starts, and after the last one
\* .catch(() => null) makes it "not found" for the two polls, while the lookup
\* after a create conflict throws it
FindDenied(p) ==
    /\ pc[p] \in {"er_direct", "er_list"}
    /\ Denied(p)
    /\ IF loc[p].phase = "initial"
       THEN /\ pc' = [pc EXCEPT ![p] = "er_fail"]
            /\ UNCHANGED <<loc, ret>>
       ELSE AfterFind(p, None)
    /\ UNCHANGED <<storeVars, cfg>>

\* git.createRef answers 403: ensureTagRef rethrows every error that is not a
\* 422, and its call is outside the try block of ensureRelease
TagRefDenied(p) ==
    /\ pc[p] = "er_tagref"
    /\ Denied(p)
    /\ pc' = [pc EXCEPT ![p] = "er_fail"]
    /\ UNCHANGED <<storeVars, cfg, loc, ret>>

\* git.createRef answers 422 although the ref is absent (the commit is not in
\* the repository): the ref is looked up next
TagRefRefused(p) ==
    /\ pc[p] = "er_tagref"
    /\ ~tagRef
    /\ UnknownCommit(p)
    /\ pc' = [pc EXCEPT ![p] = "er_getref"]
    /\ UNCHANGED <<storeVars, cfg, loc, ret, log>>

EnsureReleaseStep(p) ==
    \/ FindDirect(p)
    \/ FindList(p)
    \/ UpdateRelease(p)
    \/ EnsureTagRef(p)
    \/ GetTagRef(p)
    \/ CreateRelease(p)
    \/ Stabilize(p)
    \/ DeleteCreated(p)

----------------------------------------------------------------------------
(* uploadReleaseAssets: the selection of the artifacts to upload *)

\* preferred upload formats per platform; a platform without an entry (ohos)
\* reads undefined, which ?? turns into the empty list
RECOMMENDED_EXTENSIONS(platform) ==
    CASE platform = "macos" -> {"dmg", "pkg"}
      [] platform = "windows" -> {"msi", "exe"}
      [] platform = "linux" -> {"deb", "appimage", "rpm"}
      [] platform = "android" -> {"apk"}
      [] platform = "ios" -> {"ipa"}
      [] OTHER -> {}

UPPER == "ABCDEFGHIJKLMNOPQRSTUVWXYZ"
LOWER == "abcdefghijklmnopqrstuvwxyz"

\* the lower-case letter of each upper-case letter
LowerOf ==
    [c \in {SubSeq(UPPER, i, i) : i \in 1..Len(UPPER)} |->
       LET i == CHOOSE j \in 1..Len(UPPER) : SubSeq(UPPER, j, j) = c IN SubSeq(LOWER, i, i)]

\* String.prototype.toLowerCase, character by character
RECURSIVE toLowerCase(_)
toLowerCase(s) ==
    IF s = "" THEN ""
    ELSE (IF Head(s) \in DOMAIN LowerOf THEN LowerOf[Head(s)] ELSE Head(s))
         \o toLowerCase(Tail(s))

\* getExtensionInfo with the lower-casing left out
getExtensionInfo_Raw(path) == [raw |-> path.ext, lower |-> path.ext]

\* getExtensionInfo: a path is [stem, ext], ext being what extname finds after
\* the last dot ("" when there is none)
getExtensionInfo(path) == [raw |-> path.ext, lower |-> toLowerCase(path.ext)]

\* `${artifact.platform}|${artifact.arch}|${artifact.mode}`
groupKey(artifact) == artifact.platform \o "|" \o artifact.arch \o "|" \o artifact.mode

\* two passes over artifacts: the first records, per key, the recommended list of
\* the key's first artifact and whether any artifact of the key has a listed
\* extension; the second keeps an artifact unless its key has one and it has not
filterArtifactsForUpload(artifacts) ==
    LET first(key) == CHOOSE k \in 1..Len(artifacts) :
                          /\ groupKey(artifacts[k]) = key
                          /\ \A j \in 1..(k - 1) : groupKey(artifacts[j]) # key
        recommended(key) == RECOMMENDED_EXTENSIONS(artifacts[first(key)].platform)
        hasRecommended(key) ==
            \E k \in 1..Len(artifacts) :
                /\ groupKey(artifacts[k]) = key
                /\ getExtensionInfo(artifacts[k].path).lower \in recommended(key)
        pushed(artifact) ==
            LET key == groupKey(artifact)
            IN \/ recommended(key) = {}
               \/ ~hasRecommended(key)
               \/ getExtensionInfo(artifact.path).lower \in recommended(key)
    IN SelectSeq(artifacts, LAMBDA a : pushed(a))

\* filteredArtifacts: the filter above, then without the .sig artifacts when
\* uploadUpdaterSignatures is off
filteredArtifacts(artifacts, uploadUpdaterSignatures) ==
    SelectSeq(filterArtifactsForUpload(artifacts),
              LAMBDA a : uploadUpdaterSignatures \/ getExtensionInfo(a.path).lower # "sig")

\* the first statements of uploadReleaseAssets, up to the check of the files on disk
FilterArtifacts(p) ==
    /\ pc[p] = "ul_filter"
    /\ pc' = [pc EXCEPT ![p] = "ul_filtered"]
    /\ loc' = [loc EXCEPT ![p].filtered =
                 filteredArtifacts(cfg[p].artifacts, cfg[p].uploadUpdaterSignatures)]
    /\ UNCHANGED <<storeVars, cfg, ret, log>>

----------------------------------------------------------------------------
(* uploadReleaseAssets: asset names *)

CharsOf(s) == {SubSeq(s, i, i) : i \in 1..Len(s)}

\* [A-Za-z0-9._-], \w and \s
SafeChars == CharsOf(UPPER \o LOWER \o "0123456789._-")
WordChars == CharsOf(UPPER \o LOWER \o "0123456789_")
Whitespace == {" ", "\t", "\n"}

\* String.prototype.trim
RECURSIVE trim(_)
trim(s) ==
    IF s = "" THEN ""
    ELSE IF Head(s) \in Whitespace THEN trim(Tail(s))
    ELSE IF SubSeq(s, Len(s), Len(s)) \in Whitespace THEN trim(SubSeq(s, 1, Len(s) - 1))
    ELSE s

\* trimToString; "" also stands for undefined and null
trimToString(value) == trim(value)

\* replace(/[...]+/g, with): every maximal run of characters of the class (the
\* characters in chars when inside, the others when not) becomes one `with`
RECURSIVE replaceRuns(_, _, _, _)
replaceRuns(s, chars, inside, with) ==
    LET hit(c) == (c \in chars) = inside
    IN IF s = "" THEN ""
       ELSE IF ~hit(Head(s)) THEN Head(s) \o replaceRuns(Tail(s), chars, inside, with)
       ELSE IF Len(s) > 1 /\ hit(SubSeq(s, 2, 2)) THEN replaceRuns(Tail(s), chars, inside, with)
       ELSE with \o replaceRuns(Tail(s), chars, inside, with)

\* replace(/^-|-$/g, ''): a dash at the start and a dash at the end are dropped
stripDashes(s) ==
    LET noLead == IF s # "" /\ Head(s) = "-" THEN Tail(s) ELSE s
    IN IF noLead # "" /\ SubSeq(noLead, Len(noLead), Len(noLead)) = "-"
       THEN SubSeq(noLead, 1, Len(noLead) - 1) ELSE noLead

\* sanitizeAssetNamePart that only trims
sanitizeAssetNamePart_TrimOnly(value) == trimToString(value)

\* sanitizeAssetNamePart; "" is the undefined it returns
sanitizeAssetNamePart(value) ==
    stripDashes(replaceRuns(replaceRuns(trimToString(value), SafeChars, FALSE, "-"),
                            {"-"}, TRUE, "-"))

\* normalizeAssetName
normalizeAssetName(name) ==
    replaceRuns(replaceRuns(trimToString(name), {"/", "\\"}, TRUE, "-"), Whitespace, TRUE, "-")

\* result.split(key).join(value)
RECURSIVE splitJoin(_, _, _)
splitJoin(s, key, value) ==
    IF Len(s) < Len(key) THEN s
    ELSE IF SubSeq(s, 1, Len(key)) = key
    THEN value \o splitJoin(SubSeq(s, Len(key) + 1, Len(s)), key, value)
    ELSE Head(s) \o splitJoin(Tail(s), key, value)

\* applyTemplate: the placeholders are replaced one after the other, in the
\* order of the entries of values (a sequence of <<key, value>>)
RECURSIVE applyTemplate(_, _)
applyTemplate(template, values) ==
    IF values = <<>> THEN template
    ELSE applyTemplate(splitJoin(template, values[1][1], values[1][2]), Tail(values))

\* renderPattern: replace(/\[(\w+)\]/g, ...): a bracketed word whose lower-cased
\* form is an entry of values becomes that value, any other text is kept
RECURSIVE renderPattern(_, _)
renderPattern(pattern, values) ==
    IF pattern = "" THEN ""
    ELSE LET ends == {j \in 3..Len(pattern) :
                        /\ SubSeq(pattern, j, j) = "]"
                        /\ \A i \in 2..(j - 1) : SubSeq(pattern, i, i) \in WordChars}
         IN IF Head(pattern) = "[" /\ ends # {}
            THEN LET j == CHOOSE e \in ends : TRUE
                     key == toLowerCase(SubSeq(pattern, 2, j - 1))
                     at == {k \in 1..Len(values) : values[k][1] = key}
                 IN (IF at = {} THEN SubSeq(pattern, 1, j)
                     ELSE values[CHOOSE k \in at : TRUE][2])
                    \o renderPattern(SubSeq(pattern, j + 1, Len(pattern)), values)
            ELSE Head(pattern) \o renderPattern(Tail(pattern), values)

\* basename of a path [stem, ext]
basename(path) == IF path.ext = "" THEN path.stem ELSE path.stem \o "." \o path.ext

\* the path uploaded for an artifact: a directory is zipped to <basename>.zip
uploadPathOf(artifact, dirs) ==
    IF artifact.path \in dirs THEN [stem |-> basename(artifact.path), ext |-> "zip"]
    ELSE artifact.path

\* join('-')
RECURSIVE joinDash(_)
joinDash(parts) ==
    IF parts = <<>> THEN ""
    ELSE IF Len(parts) = 1 THEN parts[1]
    ELSE parts[1] \o "-" \o joinDash(Tail(parts))

\* buildAssetName up to the prefix: the name before normalizeAssetName; naming
\* is [assetNameTemplate, releaseAssetNamePattern, assetPrefix, appName,
\* appVersion], "" for an option that is not set
renderAssetName(artifact, uploadPath, naming) ==
    LET extension == getExtensionInfo(uploadPath)
        uploadFilename == basename(uploadPath)
        uploadBasename == uploadPath.stem
        APP == sanitizeAssetNamePart(naming.appName)
        VERSION == sanitizeAssetNamePart(naming.appVersion)
        PLATFORM == sanitizeAssetNamePart(artifact.platform)
        ARCH == sanitizeAssetNamePart(artifact.arch)
        MODE == sanitizeAssetNamePart(artifact.mode)
        EXT == sanitizeAssetNamePart(extension.raw)
        FILENAME == sanitizeAssetNamePart(uploadFilename)
        BASENAME == sanitizeAssetNamePart(uploadBasename)
        name ==
            IF naming.assetNameTemplate # ""
            THEN applyTemplate(naming.assetNameTemplate,
                    << <<"__APP__", APP>>, <<"__VERSION__", VERSION>>,
                       <<"__PLATFORM__", PLATFORM>>, <<"__ARCH__", ARCH>>,
                       <<"__MODE__", MODE>>, <<"__EXT__", EXT>>,
                       <<"__FILENAME__", FILENAME>>, <<"__BASENAME__", BASENAME>> >>)
            ELSE IF naming.releaseAssetNamePattern # ""
            THEN renderPattern(naming.releaseAssetNamePattern,
                    << <<"app", APP>>, <<"name", APP>>, <<"version", VERSION>>,
                       <<"platform", PLATFORM>>, <<"arch", ARCH>>, <<"mode", MODE>>,
                       <<"ext", EXT>>, <<"filename", FILENAME>>, <<"basename", BASENAME>> >>)
            ELSE LET parts == SelectSeq(<<APP, VERSION, PLATFORM, ARCH, MODE>>,
                                        LAMBDA v : v # "")
                     base == IF Len(parts) > 0 THEN joinDash(parts)
                             ELSE IF BASENAME # "" THEN BASENAME ELSE uploadBasename
                 IN IF extension.raw # "" THEN base \o "." \o extension.raw ELSE base
        prefix == sanitizeAssetNamePart(naming.assetPrefix)
    IN IF prefix # "" THEN prefix \o "-" \o name ELSE name

\* buildAssetName that names every asset after its file
buildAssetName_FileName(artifact, uploadPath, naming) == basename(uploadPath)

\* buildAssetName: `normalized || uploadFilename`
buildAssetName(artifact, uploadPath, naming) ==
    LET normalized == normalizeAssetName(renderAssetName(artifact, uploadPath, naming))
    IN IF normalized # "" THEN normalized ELSE basename(uploadPath)

\* path.extname of a name without separators: from the last dot on, "" when
\* there is no dot, when the only dot is the first character, and for ".."
extname(name) ==
    LET dots == {i \in 1..Len(name) : SubSeq(name, i, i) = "."}
    IN IF dots = {} THEN ""
       ELSE LET last == CHOOSE i \in dots : \A j \in dots : j <= i
            IN IF last = 1 \/ name = ".." THEN "" ELSE SubSeq(name, last, Len(name))

\* ensureUniqueAssetName that returns the name as computed
ensureUniqueAssetName_AsComputed(name, used) == name

\* ensureUniqueAssetName: the name it returns; the caller's set then holds it
ensureUniqueAssetName(name, used) ==
    IF name \notin used THEN name
    ELSE LET ext == extname(name)
             base == IF ext # "" THEN SubSeq(name, 1, Len(name) - Len(ext)) ELSE name
             candidate(index) == base \o "-" \o ToString(index) \o ext   \* `${index}`
             index == CHOOSE i \in 2..(Cardinality(used) + 2) :
                         /\ candidate(i) \notin used
                         /\ \A j \in 2..(i - 1) : candidate(j) \in used
         IN candidate(index)

\* the loop over filteredArtifacts: the names handed to uploadAssetWithRetry, in
\* order; c is the configuration of the run, c.dirs the paths that are
\* directories and c.signed the paths beside which a <path>.sig file exists
RECURSIVE uploadNames(_, _, _)
uploadNames(artifacts, usedNames, c) ==
    IF artifacts = <<>> THEN <<>>
    ELSE LET artifact == Head(artifacts)
             uploadPath == uploadPathOf(artifact, c.dirs)
             assetName == ensureUniqueAssetName(
                              buildAssetName(artifact, uploadPath, c.naming), usedNames)
             companion == /\ c.uploadUpdaterSignatures
                          /\ getExtensionInfo(uploadPath).lower # "sig"
                          /\ artifact.path \in c.signed
             signatureAssetName ==
                 ensureUniqueAssetName(assetName \o ".sig", usedNames \cup {assetName})
             named == IF companion THEN <<assetName, signatureAssetName>> ELSE <<assetName>>
         IN named \o uploadNames(Tail(artifacts), usedNames \cup Range(named), c)

\* whether the loop uploads a companion signature after the artifact
hasCompanion(artifact, c) ==
    /\ c.uploadUpdaterSignatures
    /\ getExtensionInfo(uploadPathOf(artifact, c.dirs)).lower # "sig"
    /\ artifact.path \in c.signed

\* the positions, among the calls of uploadAssetWithRetry, of the companion
\* signatures: each follows its artifact; their results are not pushed
companionUploads(artifacts, c) ==
    {k + Cardinality({j \in 1..k : hasCompanion(artifacts[j], c)}) :
        k \in {i \in 1..Len(artifacts) : hasCompanion(artifacts[i], c)}}


----------------------------------------------------------------------------
(* uploadReleaseAssets and the write loop of uploadUpdaterJson *)

\* Math.max(2, Math.trunc(retryAttempts) + 1)
\* maxAttempts without the floor of two attempts
maxAttempts_NoFloor(p) == cfg[p].retryAttempts + 1

\* Math.max(2, Math.trunc(retryAttempts) + 1)
maxAttempts(p) == IF cfg[p].retryAttempts + 1 > 2 THEN cfg[p].retryAttempts + 1 ELSE 2

\* the asset name the running list-delete-upload loop is about
CurName(p) ==
    IF loc[p].stage = "manifest" THEN UPDATER_JSON_ASSET_NAME
    ELSE cfg[p].names[loc[p].idx]

\* removal of one asset, by asset id, from whichever release holds it
WithoutAsset(a) ==
    [i \in DOMAIN releases |->
       [releases[i] EXCEPT !.assets = SelectSeq(@, LAMBDA x : x.id # a)]]

AssetLive(a) ==
    \E i \in DOMAIN releases : \E k \in 1..Len(releases[i].assets) : releases[i].assets[k].id = a

\* the run is over: normally, or by an error thrown out of run()
RunEnds(p, how) ==
    /\ pc' = [pc EXCEPT ![p] = how]
    /\ loc' = loc

\* AfterUploads with the cleanup entered whatever the mode of the run
AfterUploads_NoModeCheck(p, uploaded) ==
    IF cfg[p].updaterJson /\ uploaded # {}
    THEN /\ pc' = [pc EXCEPT ![p] = "uj_getrel"]
         /\ loc' = [loc EXCEPT ![p].uploaded = uploaded]
    ELSE /\ pc' = [pc EXCEPT ![p] = "cl_list"]
         /\ loc' = [loc EXCEPT ![p].uploaded = uploaded]

\* the first statement after the asset uploads of run(): uploadUpdaterJson when
\* enabled and something was uploaded, else cleanupDuplicateReleases in tag
\* mode, else the end of the run
AfterUploads(p, uploaded) ==
    IF cfg[p].updaterJson /\ uploaded # {}
    THEN /\ pc' = [pc EXCEPT ![p] = "uj_getrel"]
         /\ loc' = [loc EXCEPT ![p].uploaded = uploaded]
    ELSE IF cfg[p].mode = "tag"
    THEN /\ pc' = [pc EXCEPT ![p] = "cl_list"]
         /\ loc' = [loc EXCEPT ![p].uploaded = uploaded]
    ELSE /\ pc' = [pc EXCEPT ![p] = "run_done"]
         /\ loc' = [loc EXCEPT ![p].uploaded = uploaded]

\* the first statement after uploadUpdaterJson returned
AfterManifest(p) ==
    IF cfg[p].mode = "tag"
    THEN /\ pc' = [pc EXCEPT ![p] = "cl_list"]
         /\ loc' = loc
    ELSE RunEnds(p, "run_done")

\* the error of the last attempt caught by run(), which goes on to the cleanup
AttemptFailed_ThenCleanup(p) ==
    IF loc[p].att < maxAttempts(p)
    THEN /\ pc' = [pc EXCEPT ![p] = "ul_list"]
         /\ loc' = [loc EXCEPT ![p].att = @ + 1]
    ELSE RunEnds(p, IF cfg[p].mode = "tag" THEN "cl_list" ELSE "run_fail")

\* retry(): an attempt threw; the next attempt starts unless the budget is spent,
\* in which case the error leaves uploadReleaseAssets / uploadUpdaterJson and run()
AttemptFailed(p) ==
    IF loc[p].att < maxAttempts(p)
    THEN /\ pc' = [pc EXCEPT ![p] = "ul_list"]
         /\ loc' = [loc EXCEPT ![p].att = @ + 1]
    ELSE RunEnds(p, "run_fail")

\* the check of the files on disk with the check left out
CheckOnDisk_Skipped(p) ==
    /\ pc[p] = "ul_filtered"
    /\ IF Len(loc[p].filtered) = 0
       THEN AfterUploads(p, {})
       ELSE /\ pc' = [pc EXCEPT ![p] = "ul_list"]
            /\ loc' = [loc EXCEPT ![p].stage = "assets", ![p].idx = 1, ![p].att = 1]
    /\ UNCHANGED <<storeVars, cfg, ret, log>>

\* missingArtifacts: a selected artifact whose path is not on disk throws before
\* the upload loop; else the loop starts with the first selected artifact (the
\* k-th name of the run is the asset name of the k-th selected artifact)
CheckOnDisk(p) ==
    /\ pc[p] = "ul_filtered"
    /\ LET missingArtifacts ==
               SelectSeq(loc[p].filtered, LAMBDA a : a.path \in cfg[p].missing)
       IN IF Len(missingArtifacts) > 0
          THEN RunEnds(p, "run_fail")
          ELSE IF Len(loc[p].filtered) = 0
          THEN AfterUploads(p, {})
          ELSE /\ pc' = [pc EXCEPT ![p] = "ul_list"]
               /\ loc' = [loc EXCEPT ![p].stage = "assets", ![p].idx = 1, ![p].att = 1]
    /\ UNCHANGED <<storeVars, cfg, ret, log>>

\* UploadList with the search of an existing asset left out
UploadList_NoReplace(p) ==
    /\ pc[p] = "ul_list"
    /\ IF loc[p].rel \notin DOMAIN releases
       THEN AttemptFailed(p)
       ELSE /\ pc' = [pc EXCEPT ![p] = "ul_upload"]
            /\ loc' = loc
    /\ UNCHANGED <<storeVars, cfg, ret, log>>

\* listReleaseAssets (paginated) and the search of an asset with the name
UploadList(p) ==
    /\ pc[p] = "ul_list"
    /\ IF loc[p].rel \notin DOMAIN releases
       THEN AttemptFailed(p)
       ELSE LET as == releases[loc[p].rel].assets
                hit == {k \in 1..Len(as) : as[k].name = CurName(p)}
            IN IF hit = {}
               THEN /\ pc' = [pc EXCEPT ![p] = "ul_upload"]
                    /\ loc' = loc
               ELSE /\ pc' = [pc EXCEPT ![p] = "ul_delasset"]
                    /\ loc' = [loc EXCEPT ![p].existing =
                                 as[CHOOSE k \in hit : \A j \in hit : k <= j].id]
    /\ UNCHANGED <<storeVars, cfg, ret, log>>

\* UploadDeleteAsset that deletes nothing
UploadDeleteAsset_Skipped(p) ==
    /\ pc[p] = "ul_delasset"
    /\ pc' = [pc EXCEPT ![p] = "ul_upload"]
    /\ UNCHANGED <<storeVars, cfg, loc, ret, log>>

\* repos.deleteReleaseAsset of the listed asset; a 404 is swallowed
UploadDeleteAsset(p) ==
    /\ pc[p] = "ul_delasset"
    /\ IF AssetLive(loc[p].existing)
       THEN /\ releases' = WithoutAsset(loc[p].existing)
            /\ log' = log \cup {LogEntry("deleteAsset", p, loc[p].rel, {CurName(p)}, None, {})}
       ELSE UNCHANGED <<releases, log>>
    /\ pc' = [pc EXCEPT ![p] = "ul_upload"]
    /\ UNCHANGED <<tagRef, clock, nextId, nextAsset, listDesc, rejectDup, cfg, loc, ret>>

\* whether the upload in hand is of a companion signature
IsCompanion(p) == "companions" \in DOMAIN cfg[p] /\ loc[p].idx \in cfg[p].companions

\* uploadedAssets after the upload of name: the result of an artifact's upload
\* is pushed, that of a companion signature is not
pushedNames(p, name) == IF IsCompanion(p) THEN loc[p].uploaded ELSE loc[p].uploaded \cup {name}

\* uploadAssetWithRetry with every result pushed to uploadedAssets
UploadAsset_PushesAll(p) ==
    /\ pc[p] = "ul_upload"
    /\ LET r == loc[p].rel
           name == CurName(p)
       IN IF r \notin DOMAIN releases \/ (rejectDup /\ name \in assetNames(r))
          THEN /\ AttemptFailed(p)
               /\ UNCHANGED <<releases, nextAsset, log>>
          ELSE /\ releases' = [releases EXCEPT ![r].assets =
                     Append(@, [id |-> nextAsset, name |-> name, src |-> p,
                                doc |-> IF loc[p].stage = "manifest" THEN loc[p].doc ELSE <<>>,
                                head |-> IF loc[p].stage = "manifest" THEN loc[p].head
                                         ELSE NoHead,
                                valid |-> TRUE])]
               /\ nextAsset' = nextAsset + 1
               /\ log' = log \cup {LogEntry("upload", p, r, {name}, None, {})}
               /\ IF loc[p].stage = "manifest" THEN AfterManifest(p)
                  ELSE IF loc[p].idx < Len(cfg[p].names)
                  THEN /\ pc' = [pc EXCEPT ![p] = "ul_list"]
                       /\ loc' = [loc EXCEPT ![p].idx = @ + 1, ![p].att = 1,
                                             ![p].uploaded = @ \cup {name}]
                  ELSE AfterUploads(p, loc[p].uploaded \cup {name})
    /\ UNCHANGED <<tagRef, clock, nextId, listDesc, rejectDup, cfg, ret>>

\* repos.uploadReleaseAsset: a missing release is a 404, a name already on the
\* release a 422 where the store refuses duplicates; both fail the attempt
UploadAsset(p) ==
    /\ pc[p] = "ul_upload"
    /\ LET r == loc[p].rel
           name == CurName(p)
       IN IF r \notin DOMAIN releases \/ (rejectDup /\ name \in assetNames(r))
          THEN /\ AttemptFailed(p)
               /\ UNCHANGED <<releases, nextAsset, log>>
          ELSE /\ releases' = [releases EXCEPT ![r].assets =
                     Append(@, [id |-> nextAsset, name |-> name, src |-> p,
                                doc |-> IF loc[p].stage = "manifest" THEN loc[p].doc ELSE <<>>,
                                head |-> IF loc[p].stage = "manifest" THEN loc[p].head
                                         ELSE NoHead,
                                valid |-> TRUE])]
               /\ nextAsset' = nextAsset + 1
               /\ log' = log \cup {LogEntry("upload", p, r, {name}, None, {})}
               /\ IF loc[p].stage = "manifest" THEN AfterManifest(p)
                  ELSE IF loc[p].idx < Len(cfg[p].names)
                  THEN /\ pc' = [pc EXCEPT ![p] = "ul_list"]
                       /\ loc' = [loc EXCEPT ![p].idx = @ + 1, ![p].att = 1,
                                             ![p].uploaded = pushedNames(p, name)]
                  ELSE AfterUploads(p, pushedNames(p, name))
    /\ UNCHANGED <<tagRef, clock, nextId, listDesc, rejectDup, cfg, ret>>

\* a 403 from listReleaseAssets, deleteReleaseAsset or uploadReleaseAsset is
\* thrown inside retry(), which treats it as any failed attempt
UploadDenied(p) ==
    /\ pc[p] \in {"ul_list", "ul_delasset", "ul_upload"}
    /\ Denied(p)
    /\ AttemptFailed(p)
    /\ UNCHANGED <<storeVars, cfg, ret>>

UploadStep(p) ==
    \/ UploadList(p)
    \/ UploadDeleteAsset(p)
    \/ UploadAsset(p)

----------------------------------------------------------------------------
(* uploadUpdaterJson, up to the write loop *)

\* String.prototype.startsWith
startsWith(s, part) == Len(s) >= Len(part) /\ SubSeq(s, 1, Len(part)) = part

\* normalizeTagName: the trimmed text without one leading refs/tags/ or tags/
normalizeTagName(tagName) ==
    IF startsWith(trimToString(tagName), "refs/tags/")
    THEN SubSeq(trimToString(tagName), 11, Len(trimToString(tagName)))
    ELSE IF startsWith(trimToString(tagName), "tags/")
    THEN SubSeq(trimToString(tagName), 6, Len(trimToString(tagName)))
    ELSE trimToString(tagName)

\* an ISO-8601 text of the n-th second of the store's clock
Stamp(n) == "1970-01-01T00:00:0" \o ToString(n) \o "Z"

\* the arguments of uploadUpdaterJson besides releaseId, uploadedAssets and the
\* preference: those of a direct caller, or those run() derives from
\* releaseSummary (an absent body of the store is the empty text)
UpdaterParams(p) ==
    IF cfg[p].mode = "call" THEN cfg[p].params
    ELSE IF Len(loc[p].summary) = 0
    THEN [appVersion |-> cfg[p].naming.appVersion,
          releaseTagName |-> IF cfg[p].mode = "tag" THEN TagName ELSE NoStr,
          releaseBody |-> IF cfg[p].mode = "tag" THEN cfg[p].releaseBody ELSE NoStr,
          releaseCreatedAt |-> NoStr]
    ELSE [appVersion |-> cfg[p].naming.appVersion,
          releaseTagName |-> loc[p].summary[1].tag_name,
          releaseBody |-> IF loc[p].summary[1].body = NoStr /\ cfg[p].mode = "tag"
                          THEN cfg[p].releaseBody
                          ELSE loc[p].summary[1].body,
          releaseCreatedAt |-> Stamp(loc[p].summary[1].created_at)]

\* repos.getRelease of the target release: a 404 is thrown; resolvedReleaseTag
\* is the tag of the argument, else the tag of the release
ManifestGetRelease(p) ==
    /\ pc[p] = "uj_getrel"
    /\ IF loc[p].rel \in DOMAIN releases
       THEN /\ pc' = [pc EXCEPT ![p] = "uj_list"]
            /\ loc' = [loc EXCEPT ![p].resolvedReleaseTag =
                         normalizeTagName(
                             IF trimToString(UpdaterParams(p).releaseTagName) # ""
                             THEN trimToString(UpdaterParams(p).releaseTagName)
                             ELSE trimToString(releases[loc[p].rel].tag))]
       ELSE RunEnds(p, "run_fail")
    /\ UNCHANGED <<storeVars, cfg, ret, log>>

\* String.prototype.includes and endsWith
includes(s, part) ==
    \E i \in 1..(Len(s) - Len(part) + 1) : SubSeq(s, i, i + Len(part) - 1) = part

endsWith(s, part) ==
    Len(s) >= Len(part) /\ SubSeq(s, Len(s) - Len(part) + 1, Len(s)) = part

\* Number.MAX_SAFE_INTEGER: above every index of a priority list
MAX_SAFE_INTEGER == 2147483647

UPDATER_FORMAT_PRIORITY(platform) ==
    CASE platform = "windows" -> <<"msi", "nsis", "exe">>
      [] platform = "linux" -> <<"deb", "appimage", "rpm">>
      [] platform = "darwin" -> <<"dmg", "pkg", "app">>
      [] platform = "android" -> <<"apk">>
      [] platform = "ios" -> <<"ipa">>
      [] OTHER -> <<>>

SUPPORTED_UPDATER_FORMATS ==
    {"nsis", "msi", "exe", "deb", "rpm", "appimage", "dmg", "pkg", "app", "apk", "ipa",
     "zip", "tar.gz"}

isSignatureAssetName(name) == endsWith(toLowerCase(trimToString(name)), ".sig")

isUpdaterJsonAssetName(name) == toLowerCase(trimToString(name)) = UPDATER_JSON_ASSET_NAME

toUpdaterPlatformName(platform) == IF platform = "macos" THEN "darwin" ELSE platform

getLowerAssetSuffix(fileName) ==
    IF endsWith(toLowerCase(fileName), ".tar.gz") THEN "tar.gz"
    ELSE LET ext == extname(fileName)
         IN toLowerCase(IF ext = "" THEN "" ELSE Tail(ext))

\* /(^|[._-])app([._-]|$)/.test(lower)
looksLikeApp(lower) ==
    \E i \in 1..(Len(lower) - 2) :
        /\ SubSeq(lower, i, i + 2) = "app"
        /\ i = 1 \/ SubSeq(lower, i - 1, i - 1) \in {".", "_", "-"}
        /\ i + 2 = Len(lower) \/ SubSeq(lower, i + 3, i + 3) \in {".", "_", "-"}

\* inferUpdaterFormat; "" stands for undefined, in the platform and in the result
inferUpdaterFormat(fileName, platform) ==
    LET lower == toLowerCase(fileName)
        suffix == getLowerAssetSuffix(fileName)
    IN IF suffix = "" THEN ""
       ELSE IF suffix = "exe"
       THEN IF platform = "windows" THEN "nsis"
            ELSE IF includes(lower, "setup") \/ includes(lower, "nsis") THEN "nsis"
            ELSE "exe"
       ELSE IF suffix = "tar.gz"
       THEN IF platform = "macos" \/ looksLikeApp(lower) THEN "app" ELSE "tar.gz"
       ELSE suffix

inferPlatformFromAssetName(fileName, format) ==
    LET lower == toLowerCase(fileName)
    IN IF \/ includes(lower, "windows") \/ format \in {"nsis", "msi"}
          \/ endsWith(lower, ".exe") \/ endsWith(lower, ".msi")
       THEN "windows"
       ELSE IF includes(lower, "android") \/ endsWith(lower, ".apk") THEN "android"
       ELSE IF includes(lower, "ios") \/ endsWith(lower, ".ipa") THEN "ios"
       ELSE IF \/ includes(lower, "darwin") \/ includes(lower, "macos")
               \/ format \in {"dmg", "pkg", "app"}
       THEN "macos"
       ELSE IF includes(lower, "linux") \/ format \in {"deb", "rpm", "appimage"}
       THEN "linux"
       ELSE ""

inferArchFromAssetName(fileName) ==
    LET lower == toLowerCase(fileName)
    IN IF includes(lower, "x86_64") \/ includes(lower, "amd64") \/ includes(lower, "x64")
       THEN "x86_64"
       ELSE IF includes(lower, "aarch64") \/ includes(lower, "arm64") THEN "aarch64"
       ELSE IF includes(lower, "armv7") \/ includes(lower, "armhf") THEN "armv7"
       ELSE IF includes(lower, "i686") \/ includes(lower, "x86") THEN "i686"
       ELSE ""

getUpdaterFormatPriority(platform, format, preferNsis) ==
    IF format = "" THEN MAX_SAFE_INTEGER
    ELSE LET list == IF platform = "windows"
                     THEN (IF preferNsis THEN <<"nsis", "msi", "exe">>
                           ELSE <<"msi", "nsis", "exe">>)
                     ELSE UPDATER_FORMAT_PRIORITY(platform)
             at == {i \in 1..Len(list) : list[i] = format}
         IN IF at = {} THEN MAX_SAFE_INTEGER - 1 ELSE (CHOOSE i \in at : TRUE) - 1

\* buildReleaseAssetDownloadUrl, from the releases/ segment on
releaseAssetUrl(tag, assetName) == "releases/download/" \o tag \o "/" \o assetName

\* no candidate
NoCandidate == [assetName |-> "", url |-> "", platform |-> "", arch |-> "", format |-> ""]

\* uploadedByName.get(name): the last of uploadedAssets with the name, if any
uploadedByName(uploadedAssets, name) ==
    LET at == {k \in 1..Len(uploadedAssets) : uploadedAssets[k].name = name}
    IN IF at = {} THEN <<>> ELSE <<uploadedAssets[CHOOSE k \in at : \A j \in at : j <= k]>>

\* buildUpdaterCandidateFromReleaseAsset: an asset this run uploaded has the
\* platform and architecture of its artifact, any other asset what its name tells
buildUpdaterCandidateFromReleaseAsset(name, uploadedAssets, tag) ==
    IF isUpdaterJsonAssetName(name) \/ isSignatureAssetName(name) THEN NoCandidate
    ELSE LET found == uploadedByName(uploadedAssets, name)
             isUploaded == found # <<>>
             uploaded == found[1]
             format0 == inferUpdaterFormat(name, "")
             platform == IF isUploaded THEN uploaded.platform
                         ELSE inferPlatformFromAssetName(name, format0)
             arch == IF isUploaded THEN uploaded.arch ELSE inferArchFromAssetName(name)
             format == IF isUploaded
                       THEN (IF inferUpdaterFormat(uploaded.uploadPath, platform) # ""
                             THEN inferUpdaterFormat(uploaded.uploadPath, platform)
                             ELSE inferUpdaterFormat(name, platform))
                       ELSE IF platform # "" /\ format0 = ""
                       THEN inferUpdaterFormat(name, platform)
                       ELSE format0
         IN IF platform = "" \/ arch = "" THEN NoCandidate
            ELSE IF ~isUploaded /\ format \notin SUPPORTED_UPDATER_FORMATS THEN NoCandidate
            ELSE [assetName |-> name, url |-> releaseAssetUrl(tag, name),
                  platform |-> toUpdaterPlatformName(platform), arch |-> arch,
                  format |-> format]

\* candidates, in the order of the listing
Candidates(as, uploadedAssets, tag) ==
    SelectSeq([k \in 1..Len(as) |->
                 buildUpdaterCandidateFromReleaseAsset(as[k].name, uploadedAssets, tag)],
              LAMBDA c : c # NoCandidate)

\* getSignatureForAsset: the text of the last listed signature asset whose name
\* is the asset's name followed by .sig in any case ("" when there is none); the
\* text of a signature asset stands as "signature of <its name>"
getSignatureForAsset(as, assetName) ==
    LET at == {k \in 1..Len(as) :
                 /\ isSignatureAssetName(as[k].name)
                 /\ Len(as[k].name) > 4
                 /\ SubSeq(as[k].name, 1, Len(as[k].name) - 4) = assetName}
    IN IF at = {} THEN ""
       ELSE "signature of " \o as[CHOOSE k \in at : \A j \in at : j <= k].name

baseKeyOf(candidate) == candidate.platform \o "-" \o candidate.arch

specificKeyOf(candidate) == baseKeyOf(candidate) \o "-" \o candidate.format

entryOf(as, candidate) ==
    [url |-> candidate.url, signature |-> getSignatureForAsset(as, candidate.assetName)]

\* mergePlatforms that starts from no entry
mergePlatforms_Fresh(as, candidates, existingPlatforms, preferNsis) ==
    [key \in {baseKeyOf(candidates[k]) : k \in 1..Len(candidates)} |->
       entryOf(as, candidates[CHOOSE k \in 1..Len(candidates) :
                                 baseKeyOf(candidates[k]) = key])]

\* platforms: the existing entries, then under each base key the entry of the
\* first candidate of strictly best priority, then under each fully-qualified
\* key the entry of the last candidate with a format that has the key
mergePlatforms(as, candidates, existingPlatforms, preferNsis) ==
    LET priority(k) == getUpdaterFormatPriority(candidates[k].platform,
                                                candidates[k].format, preferNsis)
        winner(key) ==
            CHOOSE k \in 1..Len(candidates) :
                /\ baseKeyOf(candidates[k]) = key
                /\ \A j \in 1..Len(candidates) :
                      baseKeyOf(candidates[j]) = key =>
                          \/ priority(k) < priority(j)
                          \/ priority(k) = priority(j) /\ k <= j
        baseKeys == {baseKeyOf(candidates[k]) : k \in 1..Len(candidates)}
        baseEntries == [key \in baseKeys |-> entryOf(as, candidates[winner(key)])]
        withFormat == {k \in 1..Len(candidates) : candidates[k].format # ""}
        specificKeys == {specificKeyOf(candidates[k]) : k \in withFormat}
        last(key) == CHOOSE k \in withFormat :
                         /\ specificKeyOf(candidates[k]) = key
                         /\ \A j \in withFormat : specificKeyOf(candidates[j]) = key => j <= k
        specificEntries == [key \in specificKeys |-> entryOf(as, candidates[last(key)])]
    IN specificEntries @@ baseEntries @@ existingPlatforms

\* normalizeUpdaterPlatforms: the entries that have a url, their texts trimmed
normalizeUpdaterPlatforms(value) ==
    [key \in {k \in DOMAIN value : trimToString(value[k].url) # ""} |->
       [url |-> trimToString(value[key].url),
        signature |-> trimToString(value[key].signature)]]

\* existingVersion, existingNotes, existingPubDate and existingPlatforms where
\* there is no manifest, or where the download or JSON.parse threw
NoExisting == [head |-> NoHead, platforms |-> <<>>]

\* the same four after the try block has read the text of a manifest asset
parseExisting(asset) ==
    IF ~asset.valid THEN NoExisting
    ELSE [head |-> [version |-> trimToString(asset.head.version),
                    notes |-> trimToString(asset.head.notes),
                    pub_date |-> trimToString(asset.head.pub_date)],
          platforms |-> normalizeUpdaterPlatforms(asset.doc)]

\* resolveUpdaterVersion that asks the tag before the application version
resolveUpdaterVersion_TagFirst(appVersion, releaseTagName, existingVersion) ==
    IF normalizeTagName(trimToString(releaseTagName)) # ""
    THEN (IF startsWith(normalizeTagName(trimToString(releaseTagName)), "v")
          THEN Tail(normalizeTagName(trimToString(releaseTagName)))
          ELSE normalizeTagName(trimToString(releaseTagName)))
    ELSE IF trimToString(appVersion) # "" THEN trimToString(appVersion)
    ELSE IF trimToString(existingVersion) # "" THEN trimToString(existingVersion)
    ELSE "0.0.0"

\* resolveUpdaterVersion
resolveUpdaterVersion(appVersion, releaseTagName, existingVersion) ==
    IF trimToString(appVersion) # "" THEN trimToString(appVersion)
    ELSE IF normalizeTagName(trimToString(releaseTagName)) # ""
    THEN (IF startsWith(normalizeTagName(trimToString(releaseTagName)), "v")
          THEN Tail(normalizeTagName(trimToString(releaseTagName)))
          ELSE normalizeTagName(trimToString(releaseTagName)))
    ELSE IF trimToString(existingVersion) # "" THEN trimToString(existingVersion)
    ELSE "0.0.0"

DEFAULT_NOTES == "Draft release, will be updated later."

\* a || b || c on texts
firstNonEmpty(a, b, c) == IF a # "" THEN a ELSE IF b # "" THEN b ELSE c

\* payload.version, payload.notes and payload.pub_date
payloadHead(params, existing, now) ==
    [version |-> resolveUpdaterVersion(params.appVersion, params.releaseTagName,
                                       existing.version),
     notes |-> firstNonEmpty(trimToString(params.releaseBody), existing.notes,
                             DEFAULT_NOTES),
     pub_date |-> firstNonEmpty(trimToString(params.releaseCreatedAt), existing.pub_date,
                                now)]

\* the candidates of the listed assets, the merge onto the existing platforms
\* and the payload; with no candidate the call returns without writing
BuildManifest(p, as, existing) ==
    IF Len(Candidates(as, cfg[p].uploadedAssets, loc[p].resolvedReleaseTag)) = 0
    THEN AfterManifest(p)
    ELSE /\ pc' = [pc EXCEPT ![p] = "ul_list"]
         /\ loc' = [loc EXCEPT
                ![p].stage = "manifest", ![p].att = 1, ![p].listed = <<>>,
                ![p].doc = mergePlatforms(as,
                               Candidates(as, cfg[p].uploadedAssets,
                                          loc[p].resolvedReleaseTag),
                               existing.platforms, cfg[p].updaterJsonPreferNsis),
                ![p].head = payloadHead(UpdaterParams(p), existing.head, Stamp(clock))]

\* listReleaseAssets (a 404 is thrown); a listed asset named latest.json is
\* downloaded next, else the manifest is built from no existing document
ManifestList(p) ==
    /\ pc[p] = "uj_list"
    /\ IF loc[p].rel \notin DOMAIN releases
       THEN RunEnds(p, "run_fail")
       ELSE IF \E k \in 1..Len(releases[loc[p].rel].assets) :
                  releases[loc[p].rel].assets[k].name = UPDATER_JSON_ASSET_NAME
       THEN /\ pc' = [pc EXCEPT ![p] = "uj_download"]
            /\ loc' = [loc EXCEPT ![p].listed = releases[loc[p].rel].assets]
       ELSE BuildManifest(p, releases[loc[p].rel].assets, NoExisting)
    /\ UNCHANGED <<storeVars, cfg, ret, log>>

\* the asset the browser_download_url of the listed manifest leads to now: the
\* asset of that name on the release, if the release and the asset still exist
Downloadable(p) ==
    IF loc[p].rel \notin DOMAIN releases THEN {}
    ELSE {k \in 1..Len(releases[loc[p].rel].assets) :
            releases[loc[p].rel].assets[k].name = UPDATER_JSON_ASSET_NAME}

\* ManifestDownload that lets a failed download or parse end the call
ManifestDownload_Throws(p) ==
    /\ pc[p] = "uj_download"
    /\ IF Downloadable(p) = {}
       THEN RunEnds(p, "run_fail")
       ELSE IF ~releases[loc[p].rel].assets[CHOOSE k \in Downloadable(p) :
                                              \A j \in Downloadable(p) : j <= k].valid
       THEN RunEnds(p, "run_fail")
       ELSE BuildManifest(p, loc[p].listed,
                parseExisting(releases[loc[p].rel].assets[
                    CHOOSE k \in Downloadable(p) : \A j \in Downloadable(p) : j <= k]))
    /\ UNCHANGED <<storeVars, cfg, ret, log>>

\* downloadReleaseAssetText and JSON.parse of the existing manifest, inside try:
\* a failure of either leaves no existing document; then the manifest is built
\* from the assets as they were listed
ManifestDownload(p) ==
    /\ pc[p] = "uj_download"
    /\ IF Downloadable(p) = {}
       THEN BuildManifest(p, loc[p].listed, NoExisting)
       ELSE BuildManifest(p, loc[p].listed,
                parseExisting(releases[loc[p].rel].assets[
                    CHOOSE k \in Downloadable(p) : \A j \in Downloadable(p) : j <= k]))
    /\ UNCHANGED <<storeVars, cfg, ret, log>>

ManifestStep(p) ==
    \/ ManifestGetRelease(p)
    \/ ManifestList(p)
    \/ ManifestDownload(p)

-----
(* cleanupDuplicateReleases *)

\* the single page repos.listReleaseAssets({ per_page }) returns
FirstPage(as) == SubSeq(as, 1, IF Len(as) < PER_PAGE THEN Len(as) ELSE PER_PAGE)

PageNames(i) == {FirstPage(releases[i].assets)[k].name : k \in 1..Len(FirstPage(releases[i].assets))}

\* keep with the lookup of keepReleaseId left out
KeepOf_First(sorted, keepReleaseId) == sorted[1]

\* sorted.find((release) => release.id === keepReleaseId) ?? sorted[0]
KeepOf(sorted, keepReleaseId) ==
    IF keepReleaseId \in Range(sorted) THEN keepReleaseId ELSE sorted[1]

\* the for-loop over sorted: the next index from k on that is not keep, or the end
NextDuplicate(p, sorted, keep, k, keepNames) ==
    LET rest == {j \in k..Len(sorted) : sorted[j] # keep}
    IN IF rest = {} THEN pc' = [pc EXCEPT ![p] = "run_done"] /\ loc' = [loc EXCEPT ![p].keepNames = keepNames]
       ELSE /\ pc' = [pc EXCEPT ![p] = "cl_dupassets"]
            /\ loc' = [loc EXCEPT ![p].k = CHOOSE j \in rest : \A m \in rest : j <= m,
                                  ![p].keepNames = keepNames]

\* CleanupList with the early return taken for two releases as well
CleanupList_OffByOne(p) ==
    /\ pc[p] = "cl_list"
    /\ LET matches == listReleasesByTag(TagName)
           sorted == sortByCreatedAt(matches)
       IN IF Len(matches) <= 2
          THEN RunEnds(p, "run_done")
          ELSE /\ pc' = [pc EXCEPT ![p] = "cl_keepassets"]
               /\ loc' = [loc EXCEPT ![p].sorted = sorted,
                                     ![p].stamps = [j \in 1..Len(sorted) |->
                                                      releases[sorted[j]].created_at],
                                     ![p].keep = KeepOf(sorted, loc[p].rel)]
    /\ UNCHANGED <<storeVars, cfg, ret, log>>

\* listReleasesByTag; nothing to do with at most one release; else sort, pick keep
CleanupList(p) ==
    /\ pc[p] = "cl_list"
    /\ LET matches == listReleasesByTag(TagName)
           sorted == sortByCreatedAt(matches)
       IN IF Len(matches) <= 1
          THEN RunEnds(p, "run_done")
          ELSE /\ pc' = [pc EXCEPT ![p] = "cl_keepassets"]
               /\ loc' = [loc EXCEPT ![p].sorted = sorted,
                                     ![p].stamps = [j \in 1..Len(sorted) |->
                                                      releases[sorted[j]].created_at],
                                     ![p].keep = KeepOf(sorted, loc[p].rel)]
    /\ UNCHANGED <<storeVars, cfg, ret, log>>

\* the asset names of keep (one page); a 404 is thrown out of the call
CleanupKeepAssets(p) ==
    /\ pc[p] = "cl_keepassets"
    /\ IF loc[p].keep \notin DOMAIN releases
       THEN RunEnds(p, "run_fail")
       ELSE NextDuplicate(p, loc[p].sorted, loc[p].keep, 1, PageNames(loc[p].keep))
    /\ UNCHANGED <<storeVars, cfg, ret, log>>

\* the asset names of one duplicate (one page): skip it when one of them is
\* not among keepAssetNames, else go on to delete it; a 404 is thrown
CleanupDupAssets(p) ==
    /\ pc[p] = "cl_dupassets"
    /\ LET d == loc[p].sorted[loc[p].k]
       IN IF d \notin DOMAIN releases
          THEN /\ RunEnds(p, "run_fail")
               /\ log' = log
          ELSE IF PageNames(d) \ loc[p].keepNames # {}
          THEN /\ NextDuplicate(p, loc[p].sorted, loc[p].keep, loc[p].k + 1, loc[p].keepNames)
               /\ log' = log \cup
                      {LogEntry("skip", p, d, assetNames(d), loc[p].keep,
                                IF loc[p].keep \in DOMAIN releases THEN assetNames(loc[p].keep)
                                ELSE {})}
          ELSE /\ pc' = [pc EXCEPT ![p] = "cl_delete"]
               /\ loc' = loc
               /\ log' = log
    /\ UNCHANGED <<storeVars, cfg, ret>>

\* CleanupDelete with the failure of the delete thrown
CleanupDelete_Throws(p) ==
    /\ pc[p] = "cl_delete"
    /\ LET d == loc[p].sorted[loc[p].k]
           c == loc[p].keep
       IN IF d \in DOMAIN releases
          THEN /\ releases' = [j \in DOMAIN releases \ {d} |-> releases[j]]
               /\ log' = log \cup
                    {LogEntry("delete", p, d, assetNames(d), c,
                              IF c \in DOMAIN releases THEN assetNames(c) ELSE {})}
               /\ NextDuplicate(p, loc[p].sorted, c, loc[p].k + 1, loc[p].keepNames)
          ELSE /\ RunEnds(p, "run_fail")
               /\ UNCHANGED <<releases, log>>
    /\ UNCHANGED <<tagRef, clock, nextId, nextAsset, listDesc, rejectDup, cfg, ret>>

\* repos.deleteRelease of the duplicate; a failure is caught and logged
CleanupDelete(p) ==
    /\ pc[p] = "cl_delete"
    /\ LET d == loc[p].sorted[loc[p].k]
           c == loc[p].keep
       IN /\ IF d \in DOMAIN releases
             THEN /\ releases' = [j \in DOMAIN releases \ {d} |-> releases[j]]
                  /\ log' = log \cup
                       {LogEntry("delete", p, d, assetNames(d), c,
                                 IF c \in DOMAIN releases THEN assetNames(c) ELSE {})}
             ELSE UNCHANGED <<releases, log>>
          /\ NextDuplicate(p, loc[p].sorted, c, loc[p].k + 1, loc[p].keepNames)
    /\ UNCHANGED <<tagRef, clock, nextId, nextAsset, listDesc, rejectDup, cfg, ret>>

CleanupStep(p) ==
    \/ CleanupList(p)
    \/ CleanupKeepAssets(p)
    \/ CleanupDupAssets(p)
    \/ CleanupDelete(p)

----------------------------------------------------------------------------
(* run() *)

\* mapRelease, for the fields run() reads of releaseSummary
mapRelease(i) ==
    [tag_name |-> releases[i].tag, body |-> releases[i].body,
     created_at |-> releases[i].created_at]

\* getReleaseById of the release the run publishes to (null on a 404, and a
\* failure is a warning), then the first statement that follows:
\* uploadReleaseAssets when artifacts were built (from its selection when the
\* run carries the artifacts themselves, from its upload loop when it carries
\* their asset names only)
GetReleaseById(p) ==
    /\ \/ pc[p] = "run_getrel" /\ cfg[p].mode = "id"
       \/ pc[p] = "er_done" /\ cfg[p].mode = "tag"
    /\ LET r == IF cfg[p].mode = "id" THEN cfg[p].releaseId ELSE ret[p][Len(ret[p])]
           releaseSummary == IF r \in DOMAIN releases THEN <<mapRelease(r)>> ELSE <<>>
       IN IF Len(cfg[p].artifacts) > 0
          THEN /\ pc' = [pc EXCEPT ![p] = "ul_filter"]
               /\ loc' = [loc EXCEPT ![p].rel = r, ![p].summary = releaseSummary]
          ELSE IF Len(cfg[p].names) > 0
          THEN /\ pc' = [pc EXCEPT ![p] = "ul_list"]
               /\ loc' = [loc EXCEPT ![p].rel = r, ![p].summary = releaseSummary,
                                     ![p].stage = "assets", ![p].idx = 1, ![p].att = 1]
          ELSE IF cfg[p].mode = "tag"
          THEN /\ pc' = [pc EXCEPT ![p] = "cl_list"]
               /\ loc' = [loc EXCEPT ![p].rel = r, ![p].summary = releaseSummary]
          ELSE /\ pc' = [pc EXCEPT ![p] = "run_done"]
               /\ loc' = [loc EXCEPT ![p].rel = r, ![p].summary = releaseSummary]
    /\ UNCHANGED <<storeVars, cfg, ret, log>>

RunStep(p) ==
    \/ EnsureReleaseStep(p)
    \/ GetReleaseById(p)
    \/ UploadStep(p)
    \/ ManifestStep(p)
    \/ CleanupStep(p)

----------------------------------------------------------------------------
(* Initial states *)

\* a release of another tag, present in the repository before any run
ForeignRelease ==
    [tag |-> OtherTag, created_at |-> 0, draft |-> FALSE, prerelease |-> FALSE,
     name |-> OtherTag, body |-> NoStr, assets |-> <<>>]

\* no template, no pattern, no prefix, no application name or version
NoNaming ==
    [assetNameTemplate |-> "", releaseAssetNamePattern |-> "", assetPrefix |-> "",
     appName |-> "", appVersion |-> ""]

\* uploadedAssets of a run whose names are those of Linux installers uploaded
\* from files of the same names
PlainUploads(names) ==
    [k \in 1..Len(names) |->
       [name |-> names[k], platform |-> "linux", arch |-> "x86_64", uploadPath |-> names[k]]]

\* inputs of a run in tag mode
TagRun(name, body, draft, prerelease, names, updaterJson, retryAttempts) ==
    [mode |-> "tag", releaseId |-> None, releaseName |-> name, releaseBody |-> body,
     draft |-> draft, prerelease |-> prerelease,
     names |-> names, updaterJson |-> updaterJson, retryAttempts |-> retryAttempts,
     artifacts |-> <<>>, uploadUpdaterSignatures |-> TRUE, missing |-> {},
     naming |-> NoNaming, dirs |-> {}, signed |-> {},
     uploadedAssets |-> PlainUploads(names), updaterJsonPreferNsis |-> FALSE]

\* inputs of a run given an explicit releaseId
IdRun(releaseId, names, updaterJson, retryAttempts) ==
    [mode |-> "id", releaseId |-> releaseId, releaseName |-> NoStr, releaseBody |-> NoStr,
     draft |-> FALSE, prerelease |-> FALSE,
     names |-> names, updaterJson |-> updaterJson, retryAttempts |-> retryAttempts,
     artifacts |-> <<>>, uploadUpdaterSignatures |-> TRUE, missing |-> {},
     naming |-> NoNaming, dirs |-> {}, signed |-> {},
     uploadedAssets |-> PlainUploads(names), updaterJsonPreferNsis |-> FALSE]

\* a process that takes no part in the scenario
IdleRun ==
    [mode |-> "idle", releaseId |-> None, releaseName |-> NoStr, releaseBody |-> NoStr,
     draft |-> FALSE, prerelease |-> FALSE,
     names |-> <<>>, updaterJson |-> FALSE, retryAttempts |-> 0,
     artifacts |-> <<>>, uploadUpdaterSignatures |-> TRUE, missing |-> {},
     naming |-> NoNaming, dirs |-> {}, signed |-> {},
     uploadedAssets |-> <<>>, updaterJsonPreferNsis |-> FALSE]

Racers == {1, 2}

\* two runs call ensureRelease for the same tag; the store has no release for it
InitRace ==
    /\ releases = (1 :> ForeignRelease)
    /\ tagRef \in BOOLEAN
    /\ clock = 1
    /\ nextId = 2
    /\ nextAsset = 1
    /\ listDesc \in BOOLEAN
    /\ rejectDup = TRUE
    /\ \E d \in BOOLEAN, nm \in [Racers -> {NoStr, "title"}] :
         cfg = [p \in Procs |->
                  IF p \in Racers THEN TagRun(nm[p], NoStr, d, FALSE, <<>>, FALSE, 0)
                  ELSE IdleRun]
    /\ pc = [p \in Procs |-> IF p \in Racers THEN "er_direct" ELSE "idle"]
    /\ loc = [p \in Procs |-> InitLoc]
    /\ ret = [p \in Procs |-> <<>>]
    /\ log = {}

NextRace == \E p \in Racers : EnsureReleaseStep(p)

SpecRace == InitRace /\ [][NextRace]_vars

\* the same calls against a store that may refuse the creation of the tag ref
NextTagRef ==
    \E p \in Racers :
        \/ EnsureReleaseStep(p)
        \/ TagRefDenied(p)
        \/ TagRefRefused(p)
        \/ CreateWithoutCommitish(p)

\* each call passes the commit of its workflow run or one the repository lacks
InitTagRef ==
    /\ releases = (1 :> ForeignRelease)
    /\ tagRef \in BOOLEAN
    /\ clock = 1
    /\ nextId = 2
    /\ nextAsset = 1
    /\ listDesc = TRUE
    /\ rejectDup = TRUE
    /\ \E d \in BOOLEAN, nm \in {NoStr, "title"}, unknown \in SUBSET Racers :
         cfg = [p \in Procs |->
                  IF p \in Racers
                  THEN [commitish |-> IF p \in unknown THEN "unknown" ELSE "sha"]
                       @@ TagRun(IF p = 1 THEN nm ELSE NoStr, NoStr, d, FALSE, <<>>, FALSE, 0)
                  ELSE IdleRun]
    /\ pc = [p \in Procs |-> IF p \in Racers THEN "er_direct" ELSE "idle"]
    /\ loc = [p \in Procs |-> InitLoc]
    /\ ret = [p \in Procs |-> <<>>]
    /\ log = {}

SpecTagRef == InitTagRef /\ [][NextTagRef]_vars

----------------------------------------------------------------------------
(* One caller, two calls in a row *)

\* a release of the tag present before the run
Rel(id, at, draft, names) ==
    [tag |-> TagName, created_at |-> at, draft |-> draft, prerelease |-> FALSE,
     name |-> TagName, body |-> NoStr,
     assets |-> [k \in 1..Len(names) |->
                   [id |-> 1000 * id + k, name |-> names[k], src |-> None, doc |-> <<>>,
                    head |-> NoHead, valid |-> TRUE]]]

\* stores the tag can be found in: no release, one draft, one published release,
\* two drafts (same second or not), a draft next to a published release
InitialStores ==
    { (1 :> ForeignRelease),
      (1 :> ForeignRelease) @@ (2 :> Rel(2, 1, TRUE, <<>>)),
      (1 :> ForeignRelease) @@ (2 :> Rel(2, 1, FALSE, <<>>)),
      (1 :> ForeignRelease) @@ (2 :> Rel(2, 1, TRUE, <<>>)) @@ (3 :> Rel(3, 1, TRUE, <<>>)),
      (1 :> ForeignRelease) @@ (2 :> Rel(2, 0, TRUE, <<>>)) @@ (3 :> Rel(3, 1, TRUE, <<>>)),
      (1 :> ForeignRelease) @@ (2 :> Rel(2, 0, TRUE, <<>>)) @@ (3 :> Rel(3, 1, FALSE, <<>>)),
      (1 :> ForeignRelease) @@ (2 :> Rel(2, 0, FALSE, <<>>)) @@ (3 :> Rel(3, 1, TRUE, <<>>)) }

InitTwice ==
    /\ releases \in InitialStores
    /\ tagRef \in BOOLEAN
    /\ clock = 1
    /\ nextId = 4
    /\ nextAsset = 1
    /\ listDesc \in BOOLEAN
    /\ rejectDup = TRUE
    /\ \E d \in BOOLEAN, nm \in {NoStr, "title"}, bd \in {NoStr, "notes"} :
         cfg = [p \in Procs |->
                  IF p = 1 THEN TagRun(nm, bd, d, FALSE, <<>>, FALSE, 0) ELSE IdleRun]
    /\ pc = [p \in Procs |-> IF p = 1 THEN "er_direct" ELSE "idle"]
    /\ loc = [p \in Procs |-> InitLoc]
    /\ ret = [p \in Procs |-> <<>>]
    /\ log = {}

\* the caller invokes ensureRelease again, with the same arguments
SecondCall(p) ==
    /\ pc[p] = "er_done"
    /\ Len(ret[p]) = 1
    /\ pc' = [pc EXCEPT ![p] = "er_direct"]
    /\ loc' = [loc EXCEPT ![p] = InitLoc]
    /\ UNCHANGED <<storeVars, cfg, ret, log>>

\* without another writer the delete of the just-created release is never reached
NextTwice ==
    \/ FindDirect(1)
    \/ FindList(1)
    \/ UpdateRelease(1)
    \/ EnsureTagRef(1)
    \/ GetTagRef(1)
    \/ CreateRelease(1)
    \/ Stabilize(1)
    \/ SecondCall(1)

SpecTwice == InitTwice /\ [][NextTwice]_vars

----------------------------------------------------------------------------
(* cleanupDuplicateReleases on a tag that has duplicates *)

SmallAssets == {<<>>, <<File(1)>>, <<File(2)>>, <<File(1), File(2)>>}

\* the tag holds no, one, two or three releases, each with some of two asset names
DuplicateStores ==
    { (1 :> ForeignRelease) }
    \cup { (1 :> ForeignRelease) @@ (2 :> Rel(2, 1, TRUE, a)) : a \in SmallAssets }
    \cup { (1 :> ForeignRelease) @@ (2 :> Rel(2, 1, TRUE, a)) @@ (3 :> Rel(3, t, TRUE, b)) :
             a \in SmallAssets, b \in SmallAssets, t \in {1, 2} }
    \cup { (1 :> ForeignRelease) @@ (2 :> Rel(2, 1, TRUE, a)) @@ (3 :> Rel(3, 1, TRUE, b))
             @@ (4 :> Rel(4, 2, TRUE, <<File(1)>>)) :
             a \in {<<File(1)>>, <<File(1), File(2)>>}, b \in {<<>>, <<File(2)>>} }

\* a duplicate with one asset more than a page holds, the last one unique to it
ManyNames(n) == [k \in 1..n |-> File(k)]

BigStore ==
    (1 :> ForeignRelease) @@ (2 :> Rel(2, 1, TRUE, ManyNames(PER_PAGE)))
                          @@ (3 :> Rel(3, 2, TRUE, ManyNames(PER_PAGE + 1)))

\* the cleaner is process 1, called with any keepReleaseId; process 2, when it
\* takes part, is a run given the id of one of the releases
InitCleanup(stores, uploaders) ==
    /\ releases \in stores
    /\ tagRef = TRUE
    /\ clock = 2
    /\ nextId = 5
    /\ nextAsset = 1
    /\ listDesc \in BOOLEAN
    /\ rejectDup = TRUE
    /\ \E u \in uploaders :
         cfg = [p \in Procs |->
                  IF p = 1 THEN TagRun(NoStr, NoStr, TRUE, FALSE, <<>>, FALSE, 0)
                  ELSE IF p = 2 THEN u ELSE IdleRun]
    /\ pc = [p \in Procs |-> IF p = 1 THEN "cl_list"
                             ELSE IF p = 2 /\ cfg[p].mode = "id" THEN "run_getrel"
                             ELSE "idle"]
    /\ \E keepReleaseId \in 2..5 :
         loc = [p \in Procs |-> IF p = 1 THEN [InitLoc EXCEPT !.rel = keepReleaseId]
                                ELSE InitLoc]
    /\ ret = [p \in Procs |-> <<>>]
    /\ log = {}

InitCleanupSolo == InitCleanup(DuplicateStores \cup {BigStore}, {IdleRun})

NextCleanupSolo == CleanupStep(1)

SpecCleanupSolo == InitCleanupSolo /\ [][NextCleanupSolo]_vars

InitCleanupRace ==
    InitCleanup(DuplicateStores,
                {IdRun(r, <<File(n)>>, FALSE, 0) : r \in {2, 3}, n \in {1, 2}})

NextCleanupRace ==
    \/ CleanupStep(1)
    \/ GetReleaseById(2)
    \/ UploadStep(2)

SpecCleanupRace == InitCleanupRace /\ [][NextCleanupRace]_vars

----------------------------------------------------------------------------
(* Whole runs in tag mode *)

RunNames == {<<>>, <<File(1)>>, <<File(2)>>}

\* two runs publish to the same tag, from a store with no release for it
InitRun ==
    /\ releases = (1 :> ForeignRelease)
    /\ tagRef \in BOOLEAN
    /\ clock = 1
    /\ nextId = 2
    /\ nextAsset = 1
    /\ listDesc \in BOOLEAN
    /\ rejectDup = TRUE
    /\ \E d \in BOOLEAN, nm \in {NoStr, "title"}, n1 \in RunNames, n2 \in RunNames :
         cfg = [p \in Procs |->
                  IF p = 1 THEN TagRun(nm, NoStr, d, FALSE, n1, FALSE, 0)
                  ELSE IF p = 2 THEN TagRun(NoStr, NoStr, d, FALSE, n2, FALSE, 0)
                  ELSE IdleRun]
    /\ pc = [p \in Procs |-> IF p \in Racers THEN "er_direct" ELSE "idle"]
    /\ loc = [p \in Procs |-> InitLoc]
    /\ ret = [p \in Procs |-> <<>>]
    /\ log = {}

NextRun ==
    \E p \in Racers :
        \/ EnsureReleaseStep(p)
        \/ GetReleaseById(p)
        \/ UploadStep(p)
        \/ CleanupStep(p)

SpecRun == InitRun /\ [][NextRun]_vars

----------------------------------------------------------------------------
(* ensureRelease racing while a third run looks the release up and uploads *)

\* locals of a call that found no release and is about to create one
AtCreate(tagLock) ==
    [InitLoc EXCEPT !.tagLock = tagLock, !.phase = "recheck", !.n = RECHECK_ATTEMPTS]

\* processes 1 and 2 have both come to createRelease (one created the tag ref,
\* the other saw it exist); process 3 starts a run with one artifact
InitStabilize ==
    /\ releases = (1 :> ForeignRelease)
    /\ tagRef = TRUE
    /\ clock = 1
    /\ nextId = 2
    /\ nextAsset = 1
    /\ listDesc \in BOOLEAN
    /\ rejectDup = TRUE
    /\ cfg = [p \in Procs |->
                IF p \in Racers THEN TagRun(NoStr, NoStr, TRUE, FALSE, <<>>, FALSE, 0)
                ELSE TagRun(NoStr, NoStr, TRUE, FALSE, <<File(1)>>, FALSE, 0)]
    /\ pc = [p \in Procs |-> IF p \in Racers THEN "er_create" ELSE "er_direct"]
    /\ loc = [p \in Procs |-> IF p = 1 THEN AtCreate("created")
                              ELSE IF p = 2 THEN AtCreate("exists")
                              ELSE InitLoc]
    /\ ret = [p \in Procs |-> <<>>]
    /\ log = {}

\* no run passes a release name or body, and process 3 uploads one name to a
\* release nobody else uploads to: the update of a found release and the delete
\* of an existing asset are never reached
NextStabilize ==
    \/ \E p \in Racers : CreateRelease(p) \/ Stabilize(p) \/ DeleteCreated(p)
    \/ FindDirect(3)
    \/ FindList(3)
    \/ EnsureTagRef(3)
    \/ GetTagRef(3)
    \/ CreateRelease(3)
    \/ Stabilize(3)
    \/ DeleteCreated(3)
    \/ GetReleaseById(3)
    \/ UploadList(3)
    \/ UploadAsset(3)
    \/ CleanupStep(3)

SpecStabilize == InitStabilize /\ [][NextStabilize]_vars

\* three runs without artifacts have all come to createRelease: processes 1
\* and 2 publish the release, process 3 makes a draft
InitConflict ==
    /\ releases = (1 :> ForeignRelease)
    /\ tagRef = TRUE
    /\ clock = 1
    /\ nextId = 2
    /\ nextAsset = 1
    /\ listDesc \in BOOLEAN
    /\ rejectDup = TRUE
    /\ \E nm \in {NoStr, "title"} :
         cfg = [p \in Procs |->
                  TagRun(IF p = 2 THEN nm ELSE NoStr, NoStr, p = 3, FALSE, <<>>, FALSE, 0)]
    /\ pc = [p \in Procs |-> "er_create"]
    /\ loc = [p \in Procs |-> AtCreate(IF p = 1 THEN "created" ELSE "exists")]
    /\ ret = [p \in Procs |-> <<>>]
    /\ log = {}

\* no run passes a body and none has an artifact: no release is updated and
\* nothing is uploaded
NextConflict ==
    \E p \in Procs :
        \/ CreateRelease(p)
        \/ Stabilize(p)
        \/ DeleteCreated(p)
        \/ FindDirect(p)
        \/ FindList(p)
        \/ GetReleaseById(p)
        \/ CleanupStep(p)

SpecConflict == InitConflict /\ [][NextConflict]_vars

----------------------------------------------------------------------------
(* Runs given an explicit releaseId, publishing to the same release *)

\* the second job of a workflow that is ordered after the first one
StartAfter(p) ==
    /\ pc[p] = "run_wait"
    /\ \A q \in Racers \ {p} : pc[q] \in {"run_done", "run_fail"}
    /\ pc' = [pc EXCEPT ![p] = "run_getrel"]
    /\ log' = log \cup {LogEntry("start", p, None, {}, None, {})}
    /\ UNCHANGED <<storeVars, cfg, loc, ret>>

\* release 2 is the target (empty or holding the first name), release 3 a
\* duplicate of the tag; both runs compute the name File(1); the second run
\* starts with the first or after it; the store refuses duplicate names or not
InitUpload ==
    /\ \E a \in {<<>>, <<File(1)>>} :
         releases = (1 :> ForeignRelease) @@ (2 :> Rel(2, 1, TRUE, a))
                                          @@ (3 :> Rel(3, 2, TRUE, <<>>))
    /\ tagRef = TRUE
    /\ clock = 2
    /\ nextId = 4
    /\ nextAsset = 1
    /\ listDesc = TRUE
    /\ rejectDup \in BOOLEAN
    /\ \E n1 \in {<<File(1)>>, <<File(1), File(2)>>}, uj \in BOOLEAN, r \in {0, 2} :
         cfg = [p \in Procs |->
                  IF p = 1 THEN IdRun(2, n1, uj, r)
                  ELSE IF p = 2 THEN IdRun(2, <<File(1)>>, uj, r)
                  ELSE IdleRun]
    /\ \E w \in {"run_getrel", "run_wait"} :
         pc = [p \in Procs |-> IF p = 1 THEN "run_getrel" ELSE IF p = 2 THEN w ELSE "idle"]
    /\ loc = [p \in Procs |-> InitLoc]
    /\ ret = [p \in Procs |-> <<>>]
    /\ log = {}

NextUpload ==
    \E p \in Racers :
        \/ StartAfter(p)
        \/ GetReleaseById(p)
        \/ UploadStep(p)
        \/ ManifestStep(p)

SpecUpload == InitUpload /\ [][NextUpload]_vars

----------------------------------------------------------------------------
(* The selection of artifacts, on lists of built artifacts *)

MaxArtifacts == 3

Built(platform, arch, mode, stem, ext) ==
    [path |-> [stem |-> stem, ext |-> ext], mode |-> mode, version |-> "1.0.0",
     platform |-> platform, arch |-> arch]

\* what a build can hand over: bundles, installers (one with an upper-case
\* extension), a signature, and a package of a platform without a recommended list
BuiltArtifacts ==
    { Built("macos", "aarch64", "release", "App", "app"),
      Built("macos", "aarch64", "release", "App", "dmg"),
      Built("macos", "aarch64", "release", "Setup", "DMG"),
      Built("macos", "aarch64", "release", "App.tar.gz", "sig"),
      Built("macos", "x86_64", "release", "App", "app"),
      Built("macos", "aarch64", "debug", "App", "pkg"),
      Built("linux", "aarch64", "release", "app", "AppImage"),
      Built("linux", "aarch64", "release", "app", "dmg"),
      Built("linux", "x86_64", "release", "app.tar.gz", "sig"),
      Built("ohos", "aarch64", "release", "app", "hap") }

ArtifactLists == UNION {[1..n -> BuiltArtifacts] : n \in 0..MaxArtifacts}

InitFilter ==
    /\ releases = (1 :> ForeignRelease) @@ (2 :> Rel(2, 1, TRUE, <<>>))
    /\ tagRef = TRUE
    /\ clock = 1
    /\ nextId = 3
    /\ nextAsset = 1
    /\ listDesc = TRUE
    /\ rejectDup = TRUE
    /\ \E as \in ArtifactLists, sig \in BOOLEAN :
         cfg = [p \in Procs |->
                  IF p = 1 THEN [IdRun(2, <<>>, FALSE, 0) EXCEPT
                                   !.artifacts = as, !.uploadUpdaterSignatures = sig]
                  ELSE IdleRun]
    /\ pc = [p \in Procs |-> IF p = 1 THEN "ul_filter" ELSE "idle"]
    /\ loc = [p \in Procs |-> [InitLoc EXCEPT !.rel = IF p = 1 THEN 2 ELSE None]]
    /\ ret = [p \in Procs |-> <<>>]
    /\ log = {}

NextFilter == FilterArtifacts(1)

SpecFilter == InitFilter /\ [][NextFilter]_vars

----------------------------------------------------------------------------
(* uploadReleaseAssets on artifacts some of which are not on disk *)

\* the k-th selected artifact is uploaded under the k-th name
NamesOf(artifacts) == [k \in 1..Len(artifacts) |-> File(k)]

DiskLists == {as \in ArtifactLists : Len(as) <= 2}

\* one run given the id of release 2; any of two paths may be missing
InitDisk ==
    /\ \E a \in {<<>>, <<File(1)>>} :
         releases = (1 :> ForeignRelease) @@ (2 :> Rel(2, 1, TRUE, a))
    /\ tagRef = TRUE
    /\ clock = 1
    /\ nextId = 3
    /\ nextAsset = 1
    /\ listDesc = TRUE
    /\ rejectDup = TRUE
    /\ \E as \in DiskLists, sig \in BOOLEAN,
          gone \in SUBSET {[stem |-> "App", ext |-> "app"], [stem |-> "App", ext |-> "dmg"]} :
         cfg = [p \in Procs |->
                  IF p = 1
                  THEN [IdRun(2, NamesOf(filteredArtifacts(as, sig)), FALSE, 0) EXCEPT
                          !.artifacts = as, !.uploadUpdaterSignatures = sig, !.missing = gone]
                  ELSE IdleRun]
    /\ pc = [p \in Procs |-> IF p = 1 THEN "run_getrel" ELSE "idle"]
    /\ loc = [p \in Procs |-> InitLoc]
    /\ ret = [p \in Procs |-> <<>>]
    /\ log = {}

NextDisk ==
    \/ GetReleaseById(1)
    \/ FilterArtifacts(1)
    \/ CheckOnDisk(1)
    \/ UploadStep(1)

SpecDisk == InitDisk /\ [][NextDisk]_vars

----------------------------------------------------------------------------
(* uploadReleaseAssets with the names computed from the artifacts *)

MaxNamed == 2

\* a release build of version 1.2.3
Named(platform, arch, stem, ext) ==
    [Built(platform, arch, "release", stem, ext) EXCEPT !.version = "1.2.3"]

\* an installer, one with a name that needs sanitizing, a bundle directory, a
\* signature built beside the installer, a file whose name ends in build
\* metadata, which extname takes for its extension, and a package of a platform
\* without preferred formats with the signature built beside it
NamedArtifacts ==
    { Named("macos", "aarch64", "MyApp", "dmg"),
      Named("macos", "aarch64", "My App (1)", "dmg"),
      Named("macos", "aarch64", "MyApp", "app"),
      Named("macos", "aarch64", "MyApp.dmg", "sig"),
      Named("linux", "x86_64", "app-1.0", "0+build"),
      Named("ohos", "aarch64", "MyApp", "hap"),
      Named("ohos", "aarch64", "MyApp.hap", "sig") }

NamedLists == UNION {[1..n -> NamedArtifacts] : n \in 0..MaxNamed}

TemplateA == "__APP__-__VERSION__.__EXT__"
TemplateB == "__APP__ (__MODE__)+__ARCH__.__EXT__"
PatternA == "[name]_[Version]_[platform].[ext]"
PatternB == "[app] [target]/[ext]"

Naming(template, pattern, prefix, appName, appVersion) ==
    [assetNameTemplate |-> template, releaseAssetNamePattern |-> pattern,
     assetPrefix |-> prefix, appName |-> appName, appVersion |-> appVersion]

\* the default names, the templates alone, with a pattern beside and with a
\* prefix, and the patterns
NamingOptions ==
    { Naming("", "", "", "MyApp", "1.2.3"),
      Naming("", "", "", "My App", ""),
      Naming("", "", "", "", "1.2.3"),
      Naming("", "", " pre/rel ", "MyApp", "1.2.3"),
      Naming(TemplateA, "", "", "My App", "1.2.3"),
      Naming(TemplateA, PatternA, "", "MyApp", "1.2.3"),
      Naming(TemplateB, "", " pre/rel ", "My App", "1.2.3"),
      Naming("__FILENAME__", "", "", "MyApp", "1.2.3"),
      Naming("__APP__", "", "", "MyApp", "1.2.3"),
      Naming("__APP__", "", "", "", "1.2.3"),
      Naming("", PatternA, "", "MyApp", "1.2.3"),
      Naming("", PatternB, "", "My App", "1.2.3") }

\* one run given the id of release 2, which holds the installer of an earlier
\* run; the bundles are directories, MyApp.dmg has a MyApp.dmg.sig beside it
\* and MyApp.hap a MyApp.hap.sig
InitNaming ==
    /\ releases = (1 :> ForeignRelease)
                  @@ (2 :> Rel(2, 1, TRUE, <<"MyApp-1.2.3-macos-aarch64-release.dmg">>))
    /\ tagRef = TRUE
    /\ clock = 1
    /\ nextId = 3
    /\ nextAsset = 1
    /\ listDesc = TRUE
    /\ rejectDup = TRUE
    /\ \E as \in NamedLists, sig \in BOOLEAN, naming \in NamingOptions :
         LET c == [IdRun(2, <<>>, FALSE, 0) EXCEPT
                     !.artifacts = as, !.uploadUpdaterSignatures = sig, !.naming = naming,
                     !.dirs = {a.path : a \in {x \in NamedArtifacts : x.path.ext = "app"}},
                     !.signed = {[stem |-> "MyApp", ext |-> "dmg"],
                                 [stem |-> "MyApp", ext |-> "hap"]}]
         IN cfg = [p \in Procs |->
                     IF p = 1
                     THEN [companions |-> companionUploads(filteredArtifacts(as, sig), c)]
                          @@ [c EXCEPT !.names = uploadNames(filteredArtifacts(as, sig), {}, c)]
                     ELSE IdleRun]
    /\ pc = [p \in Procs |-> IF p = 1 THEN "run_getrel" ELSE "idle"]
    /\ loc = [p \in Procs |-> InitLoc]
    /\ ret = [p \in Procs |-> <<>>]
    /\ log = {}

NextNaming ==
    \/ GetReleaseById(1)
    \/ FilterArtifacts(1)
    \/ CheckOnDisk(1)
    \/ UploadStep(1)

SpecNaming == InitNaming /\ [][NextNaming]_vars

----------------------------------------------------------------------------
(* a cleanup beside a run that uploads and then writes the manifest *)

InitGone ==
    InitCleanup(DuplicateStores,
                {IdRun(r, <<File(n)>>, TRUE, 0) : r \in {2, 3}, n \in {1, 2}})

\* no manifest is on a release before run 2 writes it: nothing to download
NextGone ==
    \/ CleanupStep(1)
    \/ GetReleaseById(2)
    \/ UploadStep(2)
    \/ ManifestGetRelease(2)
    \/ ManifestList(2)

SpecGone == InitGone /\ [][NextGone]_vars

----------------------------------------------------------------------------
(* runs whose calls the store may answer with a 403 *)

\* two runs publish File(1) to the same tag; the tag ref exists, no release does
InitDenied ==
    /\ releases = (1 :> ForeignRelease)
    /\ tagRef = TRUE
    /\ clock = 1
    /\ nextId = 2
    /\ nextAsset = 1
    /\ listDesc = TRUE
    /\ rejectDup = TRUE
    /\ \E nm \in {NoStr, "title"} :
         cfg = [p \in Procs |->
                  IF p = 1 THEN TagRun(nm, NoStr, TRUE, FALSE, <<File(1)>>, FALSE, 0)
                  ELSE IF p = 2 THEN TagRun(NoStr, NoStr, TRUE, FALSE, <<File(1)>>, FALSE, 0)
                  ELSE IdleRun]
    /\ pc = [p \in Procs |-> IF p \in Racers THEN "er_direct" ELSE "idle"]
    /\ loc = [p \in Procs |-> InitLoc]
    /\ ret = [p \in Procs |-> <<>>]
    /\ log = {}

NextDenied ==
    \E p \in Racers :
        \/ EnsureReleaseStep(p)
        \/ FindDenied(p)
        \/ GetReleaseById(p)
        \/ UploadStep(p)
        \/ UploadDenied(p)
        \/ CleanupStep(p)

SpecDenied == InitDenied /\ [][NextDenied]_vars

----------------------------------------------------------------------------
(* three runs that upload the same name to one release *)

\* three runs given the id of the empty release 2, on a store that refuses
\* duplicate names; each uploads File(1), run 1 then File(2)
InitRetry ==
    /\ releases = (1 :> ForeignRelease) @@ (2 :> Rel(2, 1, TRUE, <<>>))
    /\ tagRef = TRUE
    /\ clock = 1
    /\ nextId = 3
    /\ nextAsset = 1
    /\ listDesc = TRUE
    /\ rejectDup = TRUE
    /\ \E uj \in BOOLEAN, r \in {0, 2} :
         cfg = [p \in Procs |->
                  IF p = 1 THEN IdRun(2, <<File(1), File(2)>>, uj, r)
                  ELSE IdRun(2, <<File(1)>>, uj, r)]
    /\ pc = [p \in Procs |-> "run_getrel"]
    /\ loc = [p \in Procs |-> InitLoc]
    /\ ret = [p \in Procs |-> <<>>]
    /\ log = {}

NextRetry ==
    \E p \in Procs :
        \/ GetReleaseById(p)
        \/ UploadStep(p)
        \/ ManifestStep(p)

SpecRetry == InitRetry /\ [][NextRetry]_vars

----------------------------------------------------------------------------
(* The jobs of one workflow publish to release 2 and write the manifest *)

Uploaded(name, platform, arch, uploadPath) ==
    [name |-> name, platform |-> platform, arch |-> arch, uploadPath |-> uploadPath]

\* what the Windows and the Linux job upload, under the default names
WindowsUploads ==
    <<Uploaded("app-1.0-windows-x86_64-release.exe", "windows", "x86_64", "App_1.0_x64.exe"),
      Uploaded("app-1.0-windows-x86_64-release.msi", "windows", "x86_64", "App_1.0_x64.msi")>>

LinuxUploads ==
    <<Uploaded("app-1.0-linux-x86_64-release.deb", "linux", "x86_64", "app_1.0_amd64.deb")>>

\* a run given the release id that uploads the assets and then the manifest
ManifestRun(releaseId, uploads, preferNsis) ==
    [IdRun(releaseId, [k \in 1..Len(uploads) |-> uploads[k].name], TRUE, 0) EXCEPT
       !.uploadedAssets = uploads, !.updaterJsonPreferNsis = preferNsis]

\* the two jobs are given the id of the empty release 2 and the same
\* preference; they run in any order, one after the other or overlapping
InitManifest ==
    /\ releases = (1 :> ForeignRelease) @@ (2 :> Rel(2, 1, TRUE, <<>>))
    /\ tagRef = TRUE
    /\ clock = 1
    /\ nextId = 3
    /\ nextAsset = 1
    /\ listDesc = TRUE
    /\ rejectDup = TRUE
    /\ \E preferNsis \in BOOLEAN :
         cfg = [p \in Procs |->
                  IF p = 1 THEN ManifestRun(2, WindowsUploads, preferNsis)
                  ELSE IF p = 2 THEN ManifestRun(2, LinuxUploads, preferNsis)
                  ELSE IdleRun]
    /\ pc = [p \in Procs |-> IF p \in Racers THEN "run_getrel" ELSE "idle"]
    /\ loc = [p \in Procs |-> InitLoc]
    /\ ret = [p \in Procs |-> <<>>]
    /\ log = {}

NextManifest ==
    \E p \in Racers :
        \/ GetReleaseById(p)
        \/ UploadStep(p)
        \/ ManifestStep(p)

SpecManifest == InitManifest /\ [][NextManifest]_vars

---------------------------------------------------------------------------------------------------------------------------------------------------
(* retry(fn, retries, delay, onRetry) on its own; fn's k-th invocation returns
   k or throws error k, as cfg.outcomes[k] tells *)

\* the body of the loop with the callback and the delay after every failure
RetryCall_AlwaysNotifies(p) ==
    /\ pc[p] = "rt_call"
    /\ IF cfg[p].outcomes[loc[p].attempt]
       THEN /\ ret' = [ret EXCEPT ![p] = <<loc[p].attempt>>]
            /\ pc' = [pc EXCEPT ![p] = "rt_returned"]
            /\ loc' = [loc EXCEPT ![p].invoked = Append(@, loc[p].attempt)]
       ELSE /\ ret' = ret
            /\ loc' = [loc EXCEPT ![p].invoked = Append(@, loc[p].attempt),
                                  ![p].lastError = loc[p].attempt]
            /\ pc' = [pc EXCEPT ![p] = IF cfg[p].onRetry THEN "rt_notify" ELSE "rt_sleep"]
    /\ UNCHANGED <<storeVars, cfg, log>>

\* the body of the loop: return await fn(), or catch, keep the error and, when
\* attempts are left, go on to onRetry and the delay; after the last attempt
\* the loop ends and lastError is thrown
RetryCall(p) ==
    /\ pc[p] = "rt_call"
    /\ IF cfg[p].outcomes[loc[p].attempt]
       THEN /\ ret' = [ret EXCEPT ![p] = <<loc[p].attempt>>]
            /\ pc' = [pc EXCEPT ![p] = "rt_returned"]
            /\ loc' = [loc EXCEPT ![p].invoked = Append(@, loc[p].attempt)]
       ELSE /\ ret' = ret
            /\ loc' = [loc EXCEPT ![p].invoked = Append(@, loc[p].attempt),
                                  ![p].lastError = loc[p].attempt]
            /\ pc' = [pc EXCEPT ![p] =
                        IF loc[p].attempt < cfg[p].retries
                        THEN IF cfg[p].onRetry THEN "rt_notify" ELSE "rt_sleep"
                        ELSE "rt_thrown"]
    /\ UNCHANGED <<storeVars, cfg, log>>

\* if (onRetry) onRetry(attempt, error)
RetryNotify(p) ==
    /\ pc[p] = "rt_notify"
    /\ loc' = [loc EXCEPT ![p].notified = Append(@, loc[p].attempt)]
    /\ pc' = [pc EXCEPT ![p] = "rt_sleep"]
    /\ UNCHANGED <<storeVars, cfg, ret, log>>

\* the delay is over: attempt++ and the loop condition attempt <= retries
RetrySleep(p) ==
    /\ pc[p] = "rt_sleep"
    /\ loc' = [loc EXCEPT ![p].attempt = @ + 1]
    /\ pc' = [pc EXCEPT ![p] = IF loc[p].attempt + 1 <= cfg[p].retries
                                THEN "rt_call" ELSE "rt_thrown"]
    /\ UNCHANGED <<storeVars, cfg, ret, log>>

MaxRetries == 4

InitRetryFn ==
    /\ releases = (1 :> ForeignRelease)
    /\ tagRef = FALSE
    /\ clock = 1
    /\ nextId = 2
    /\ nextAsset = 1
    /\ listDesc = TRUE
    /\ rejectDup = TRUE
    /\ \E n \in 1..MaxRetries, hasOnRetry \in BOOLEAN :
         \E outcomes \in [1..n -> BOOLEAN] :
            cfg = [p \in Procs |->
                     IF p = 1
                     THEN [retries |-> n, outcomes |-> outcomes, onRetry |-> hasOnRetry] @@ IdleRun
                     ELSE IdleRun]
    /\ pc = [p \in Procs |-> IF p = 1 THEN "rt_call" ELSE "idle"]
    /\ loc = [p \in Procs |-> InitLoc]
    /\ ret = [p \in Procs |-> <<>>]
    /\ log = {}

NextRetryFn == RetryCall(1) \/ RetryNotify(1) \/ RetrySleep(1)

SpecRetryFn == InitRetryFn /\ [][NextRetryFn]_vars

----------------------------------------------------------------------------
(* The tag name on its way from the input of run() into ensureRelease *)

\* run(): resolved_tag = normalizeTagName(resolved_tag_raw)
ResolveTag(p) ==
    /\ pc[p] = "run_tag"
    /\ loc' = [loc EXCEPT ![p].tagName = normalizeTagName(cfg[p].tagNameInput)]
    /\ pc' = [pc EXCEPT ![p] = "er_tag"]
    /\ UNCHANGED <<storeVars, cfg, ret, log>>

\* ensureRelease, called with resolved_tag: tagName = normalizeTagName(rawTagName)
EnsureTagName(p) ==
    /\ pc[p] = "er_tag"
    /\ loc' = [loc EXCEPT ![p].tagName = normalizeTagName(loc[p].tagName)]
    /\ pc' = [pc EXCEPT ![p] = "er_find"]
    /\ UNCHANGED <<storeVars, cfg, ret, log>>

MaxPrefixes == 3

\* what a tag input may carry in front of and behind the tag
TagPieces == {"refs/tags/", "tags/", " "}

RECURSIVE Concat(_)
Concat(parts) == IF parts = <<>> THEN "" ELSE Head(parts) \o Concat(Tail(parts))

\* tag inputs: up to MaxPrefixes pieces, a tag, and blanks or none behind it
TagInputs ==
    {Concat(pre) \o bare \o post :
        pre \in UNION {[1..n -> TagPieces] : n \in 0..MaxPrefixes},
        bare \in {"v1.2.3", "release/1.0"},
        post \in {"", " "}}

InitTag ==
    /\ releases = (1 :> ForeignRelease)
    /\ tagRef = FALSE
    /\ clock = 1
    /\ nextId = 2
    /\ nextAsset = 1
    /\ listDesc = TRUE
    /\ rejectDup = TRUE
    /\ \E raw \in TagInputs :
         cfg = [p \in Procs |->
                  IF p = 1
                  THEN [tagNameInput |-> raw] @@ TagRun(NoStr, NoStr, FALSE, FALSE, <<>>, FALSE, 0)
                  ELSE IdleRun]
    /\ pc = [p \in Procs |-> IF p = 1 THEN "run_tag" ELSE "idle"]
    /\ loc = [p \in Procs |-> InitLoc]
    /\ ret = [p \in Procs |-> <<>>]
    /\ log = {}

NextTag == ResolveTag(1) \/ EnsureTagName(1)

SpecTag == InitTag /\ [][NextTag]_vars

----------------------------------------------------------------------------
(* Two calls of uploadUpdaterJson on release 2, one after the other *)

\* an asset on the release before the first call, and a manifest asset
Asset(id, name) ==
    [id |-> id, name |-> name, src |-> None, doc |-> <<>>, head |-> NoHead, valid |-> TRUE]

ManifestAsset(id, head, platforms, valid) ==
    [id |-> id, name |-> UPDATER_JSON_ASSET_NAME, src |-> None, doc |-> platforms,
     head |-> head, valid |-> valid]

Entry(name) == [url |-> releaseAssetUrl(TagName, name), signature |-> ""]

OldHead == [version |-> "0.9.0", notes |-> "old notes", pub_date |-> Stamp(0)]

MsiUploads == <<Uploaded("App-1.2.3.msi", "windows", "x86_64", "App-1.2.3.msi")>>

\* the assets of release 2, what the first call is given as uploadedAssets and
\* what the second call may be given: an NSIS installer of an earlier run with
\* its manifest and a new .msi; or the installers of a Windows and a Linux job,
\* with no manifest, with the manifest of a macOS job, or with a corrupt one
DocumentScenarios ==
    {[assets |-> <<Asset(2001, nsisName), Asset(2002, "App-1.2.3.msi"),
                   ManifestAsset(2003, OldHead,
                       IF both
                       THEN ("windows-x86_64" :> Entry(nsisName))
                            @@ ("windows-x86_64-nsis" :> Entry(nsisName))
                       ELSE ("windows-x86_64" :> Entry(nsisName)),
                       valid)>>,
      first |-> MsiUploads, second |-> second] :
        nsisName \in {"App.nsis.exe", "App_x64.nsis.exe"},
        both \in BOOLEAN,
        valid \in BOOLEAN,
        second \in {MsiUploads, <<>>}}
    \cup
    {[assets |-> [k \in 1..3 |-> Asset(2000 + k, (WindowsUploads \o LinuxUploads)[k].name)]
                 \o old,
      first |-> WindowsUploads, second |-> second] :
        old \in {<<>>,
                 <<ManifestAsset(2004, OldHead, ("darwin-aarch64" :> Entry("app.dmg")), TRUE)>>,
                 <<ManifestAsset(2004, OldHead, ("darwin-aarch64" :> Entry("app.dmg")), FALSE)>>},
        second \in {WindowsUploads, <<>>, LinuxUploads}}

\* the arguments of a direct call
DocumentParams ==
    [appVersion : {"", "2.0.0", " "},
     releaseTagName : {"", "v1.2.3", "refs/tags/v1.2.3"},
     releaseBody : {"", "notes"},
     releaseCreatedAt : {"", Stamp(1)}]

\* a direct caller of uploadUpdaterJson
Call(releaseId, params, uploads, preferNsis) ==
    [params |-> params] @@
    [IdRun(releaseId, <<>>, TRUE, 0) EXCEPT
       !.mode = "call", !.uploadedAssets = uploads, !.updaterJsonPreferNsis = preferNsis]

\* two callers with the same arguments but uploadedAssets; the second is not
\* yet calling (idle) or calls at the same time as the first
InitCalls(paramSets, second) ==
    /\ \E sc \in DocumentScenarios, params \in paramSets, preferNsis \in BOOLEAN :
         /\ releases = (1 :> ForeignRelease)
                        @@ (2 :> [Rel(2, 1, FALSE, <<>>) EXCEPT !.assets = sc.assets])
         /\ cfg = [p \in Procs |->
                     IF p = 1 THEN Call(2, params, sc.first, preferNsis)
                     ELSE IF p = 2 THEN Call(2, params, sc.second, preferNsis)
                     ELSE IdleRun]
    /\ tagRef = TRUE
    /\ clock = 1
    /\ nextId = 3
    /\ nextAsset = 1
    /\ listDesc = TRUE
    /\ rejectDup = TRUE
    /\ pc = [p \in Procs |-> IF p = 1 THEN "uj_getrel" ELSE IF p = 2 THEN second ELSE "idle"]
    /\ loc = [p \in Procs |-> [InitLoc EXCEPT !.rel = 2]]
    /\ ret = [p \in Procs |-> <<>>]
    /\ log = {}

InitDocument == InitCalls(DocumentParams, "idle")

\* the second call starts once the first has returned, a second later
CallAfter(p, q) ==
    /\ pc[p] = "idle"
    /\ pc[q] = "run_done"
    /\ clock < MaxClock
    /\ clock' = clock + 1
    /\ pc' = [pc EXCEPT ![p] = "uj_getrel"]
    /\ UNCHANGED <<releases, tagRef, nextId, nextAsset, listDesc, rejectDup, cfg, loc, ret, log>>

NextDocument ==
    \/ \E p \in Racers : ManifestStep(p) \/ UploadStep(p)
    \/ CallAfter(2, 1)

SpecDocument == InitDocument /\ [][NextDocument]_vars

----------------------------------------------------------------------------
(* Two calls of uploadUpdaterJson on release 2 at the same time *)

NoParams ==
    [appVersion |-> "", releaseTagName |-> "", releaseBody |-> "", releaseCreatedAt |-> ""]

InitOverlap == InitCalls({NoParams}, "uj_getrel")

NextOverlap == \E p \in Racers : ManifestStep(p) \/ UploadStep(p)

SpecOverlap == InitOverlap /\ [][NextOverlap]_vars

-----
(* Properties *)

TagReleases == {i \in DOMAIN releases : releases[i].tag = TagName}

Logged(ops) == {e \in log : e.op \in ops}

\* every listed deletion removed a release whose asset names the canonical
\* release held at that moment
DeletedSubsets(ops) == \A e \in Logged(ops) : e.names \subseteq e.canonNames

\* C1: two concurrent ensureRelease calls on a tag without release, one of which
\* saw the tag ref exist: once both have returned they returned the same id, and
\* a release created by a call that returned another id is gone
C1_RaceConverges ==
    (/\ \A p \in Racers : pc[p] = "er_done"
     /\ \E p \in Racers : loc[p].tagLock = "exists")
    => /\ ret[1][1] = ret[2][1]
       /\ \A p \in Racers :
            (loc[p].created # None /\ loc[p].created # ret[p][1])
            => loc[p].created \notin DOMAIN releases

\* C2: once every run has finished ensureRelease, its uploads and its cleanup,
\* at most one release of the tag is left, apart from the duplicates a cleanup
\* skipped for holding an asset name the canonical release lacks
C2_Converges ==
    (\A p \in Racers : pc[p] = "run_done")
    => Cardinality(TagReleases \ {e.rel : e \in Logged({"skip"})}) <= 1

\* both runs created a release, a cleanup deleted one of them, one is left
C2_Witness ==
    /\ \A p \in Racers : pc[p] = "run_done"
    /\ \A p \in Racers : loc[p].created # None
    /\ Logged({"delete"}) # {}
    /\ Cardinality(TagReleases) = 1

\* C3: two ensureRelease calls in a row, without releaseName and releaseBody and
\* without another writer, return the same id, and the second creates no release
C3_Idempotent ==
    /\ pc[1] \notin {"er_delete", "er_fail"}
    /\ (~shouldUpdate(1) /\ Len(ret[1]) = 2)
       => /\ ret[1][1] = ret[1][2]
          /\ loc[1].created = None
          /\ Cardinality(Logged({"create"})) <= 1

\* the first call created the release, the second call returned it
C3_Witness ==
    /\ ~shouldUpdate(1)
    /\ Len(ret[1]) = 2
    /\ \E e \in Logged({"create"}) : e.rel = ret[1][2]

\* C4: cleanupDuplicateReleases deletes only releases whose asset names are all
\* on the kept release; a duplicate with a name the kept release lacks is skipped
\* and still exists after the call; every other duplicate is deleted
C4_OnlySubsetsDeleted ==
    /\ DeletedSubsets({"delete"})
    /\ \A e \in Logged({"skip"}) :
         e.rel \in DOMAIN releases /\ ~(e.names \subseteq e.canonNames)
    /\ (pc[1] = "run_done" /\ loc[1].sorted # <<>>)
       => \A d \in Range(loc[1].sorted) \ {loc[1].keep} :
            d \in DOMAIN releases => d \in {e.rel : e \in Logged({"skip"})}

\* C5: every release deletion, that of the just-created release in ensureRelease
\* included, removes a release whose asset names are all on the canonical release
\* at the moment of the deletion, whatever other processes looked up and uploaded
C5_EveryDeletionSubset == DeletedSubsets({"delete", "deleteCreated"})

\* C6: with another process uploading to a duplicate while the cleanup runs, no
\* release is deleted while it holds an asset name the canonical release lacks
C6_NoLossUnderUpload ==
    \A e \in Logged({"delete"}) : e.by = 1 => e.names \subseteq e.canonNames

\* C7: the canonical release of a cleanup is keepReleaseId when the listing holds
\* it, else a release with the earliest created_at; the call never deletes it,
\* and deletes nothing when the tag has at most one release
C7_Canonical ==
    LET l == loc[1]
        idx(i) == CHOOSE j \in 1..Len(l.sorted) : l.sorted[j] = i
    IN /\ l.sorted # <<>> =>
            /\ l.keep \in Range(l.sorted)
            /\ l.rel \in Range(l.sorted) => l.keep = l.rel
            /\ l.rel \notin Range(l.sorted) =>
                 \A j \in 1..Len(l.sorted) : l.stamps[idx(l.keep)] <= l.stamps[j]
            /\ \A e \in Logged({"delete"}) : e.rel # l.keep
            /\ l.keep \in DOMAIN releases
       /\ Cardinality(TagReleases) + Cardinality(Logged({"delete"})) <= 1
            => Logged({"delete"}) = {}

\* keepReleaseId is listed and is not the earliest release; a duplicate was
\* deleted and the kept release is still there
C7_Witness ==
    /\ pc[1] = "run_done"
    /\ loc[1].sorted # <<>>
    /\ loc[1].rel \in Range(loc[1].sorted)
    /\ loc[1].rel # loc[1].sorted[1]
    /\ Logged({"delete"}) # {}
    /\ loc[1].rel \in DOMAIN releases

\* C8: a run given an explicit releaseId never enters ensureRelease or
\* cleanupDuplicateReleases and issues no create-release, update-release,
\* delete-release or create-ref call; its writes are asset deletions and uploads
\* on that release
C8_IdModeBypasses ==
    \A p \in Racers :
        cfg[p].mode = "id" =>
            /\ pc[p] \in {"run_wait", "run_getrel", "ul_list", "ul_delasset", "ul_upload",
                          "uj_getrel", "uj_list", "uj_download", "run_done", "run_fail"}
            /\ ret[p] = <<>>
            /\ \A e \in log :
                 (e.by = p /\ e.op # "start")
                 => e.op \in {"upload", "deleteAsset"} /\ e.rel = cfg[p].releaseId

\* a run given the id has uploaded its artifacts and the manifest, and is over
C8_Witness ==
    /\ cfg[1].mode = "id"
    /\ pc[1] = "run_done"
    /\ \E e \in Logged({"upload"}) : e.by = 1 /\ e.names = {File(1)}
    /\ \E e \in Logged({"upload"}) : e.by = 1 /\ e.names = {UPDATER_JSON_ASSET_NAME}

UniqueNames(i) ==
    \A j, k \in 1..Len(releases[i].assets) :
        releases[i].assets[j].name = releases[i].assets[k].name => j = k

UploadsOver == \A p \in Racers : pc[p] \in {"run_done", "run_fail"}

\* C9 as stated: after the uploads of both runs no two assets of the release
\* share a name, whether or not the store refuses duplicate names
C9_UniqueWithoutStore == UploadsOver => UniqueNames(2)

\* C9 as amended: after the uploads of both runs no two assets of the release
\* share a name, provided the store refuses duplicate names or the runs did not
\* overlap
C9_UniqueNames ==
    (UploadsOver /\ (rejectDup \/ Logged({"start"}) # {})) => UniqueNames(2)

\* the store accepts duplicates, the second run started after the first and
\* replaced the asset the first had uploaded
C9_Witness ==
    /\ UploadsOver
    /\ ~rejectDup
    /\ Logged({"start"}) # {}
    /\ \E e \in Logged({"deleteAsset"}) : e.by = 2 /\ e.names = {File(1)}
    /\ UniqueNames(2)

\* the (platform, extension) pairs the recommended lists cover, extension as written
IsRecommended(a) ==
    <<a.platform, a.path.ext>> \in
        { <<"macos", "dmg">>, <<"macos", "DMG">>, <<"macos", "pkg">>,
          <<"linux", "AppImage">> }

SameGroup(a, b) == a.platform = b.platform /\ a.arch = b.arch /\ a.mode = b.mode

GroupHasRecommended(a, artifacts) ==
    \E k \in 1..Len(artifacts) : SameGroup(a, artifacts[k]) /\ IsRecommended(artifacts[k])

\* C10 as stated: in a group with a recommended extension exactly the artifacts
\* with one are selected, in a group without one all artifacts are selected
C10_SelectionAsStated ==
    pc[1] = "ul_filtered" =>
        loc[1].filtered =
            SelectSeq(cfg[1].artifacts,
                      LAMBDA a : GroupHasRecommended(a, cfg[1].artifacts) => IsRecommended(a))

\* C10 as amended: the same, except that in a group without a recommended
\* extension the .sig artifacts are dropped when signature upload is off
C10_Selection ==
    pc[1] = "ul_filtered" =>
        loc[1].filtered =
            SelectSeq(cfg[1].artifacts,
                      LAMBDA a : IF GroupHasRecommended(a, cfg[1].artifacts)
                                 THEN IsRecommended(a)
                                 ELSE cfg[1].uploadUpdaterSignatures \/ a.path.ext # "sig")

\* a (macos, aarch64, release) group of an .app and a .dmg: only the .dmg is selected
C10_Witness ==
    /\ pc[1] = "ul_filtered"
    /\ cfg[1].artifacts = << Built("macos", "aarch64", "release", "App", "app"),
                             Built("macos", "aarch64", "release", "App", "dmg") >>
    /\ loc[1].filtered = << Built("macos", "aarch64", "release", "App", "dmg") >>

\* the selected artifacts of run 1 that are not on disk
SelectedMissing ==
    SelectSeq(filteredArtifacts(cfg[1].artifacts, cfg[1].uploadUpdaterSignatures),
              LAMBDA a : a.path \in cfg[1].missing)

\* C11: when a selected artifact is missing on disk the call fails before any
\* asset delete or upload and the release keeps its asset list; a missing
\* artifact that the selection dropped does not make the call fail
C11_FailsBeforeMutation ==
    /\ Len(SelectedMissing) > 0 =>
         /\ pc[1] \in {"run_getrel", "ul_filter", "ul_filtered", "run_fail"}
         /\ \A e \in log : e.by # 1
         /\ \A k \in 1..Len(releases[2].assets) : releases[2].assets[k].src = None
         /\ nextAsset = 1
    /\ Len(SelectedMissing) = 0 => pc[1] # "run_fail"

\* the first selected artifact is on disk, the second is not: the call failed
\* and the release holds what it held
C11_Witness ==
    /\ pc[1] = "run_fail"
    /\ Len(loc[1].filtered) = 2
    /\ loc[1].filtered[1].path \notin cfg[1].missing
    /\ loc[1].filtered[2].path \in cfg[1].missing
    /\ Len(releases[2].assets) = 1

\* the names of the assets process 1 has uploaded to release 2 so far, in order
UploadedNames ==
    LET mine == SelectSeq(releases[2].assets, LAMBDA a : a.src = 1)
    IN [k \in 1..Len(mine) |-> mine[k].name]

\* the artifacts the run of process 1 uploads
Selected == filteredArtifacts(cfg[1].artifacts, cfg[1].uploadUpdaterSignatures)

\* only [A-Za-z0-9._-], no '-' at either end
IsSafeName(s) ==
    /\ CharsOf(s) \subseteq SafeChars
    /\ s # "" => Head(s) # "-" /\ SubSeq(s, Len(s), Len(s)) # "-"

DefaultMode ==
    cfg[1].naming.assetNameTemplate = "" /\ cfg[1].naming.releaseAssetNamePattern = ""

\* the text that reaches a name without passing sanitizeAssetNamePart: the
\* template, else the pattern, else the extensions of the uploaded files
LiteralChars ==
    IF cfg[1].naming.assetNameTemplate # "" THEN CharsOf(cfg[1].naming.assetNameTemplate)
    ELSE IF cfg[1].naming.releaseAssetNamePattern # ""
    THEN CharsOf(cfg[1].naming.releaseAssetNamePattern)
    ELSE UNION {CharsOf(uploadPathOf(Selected[k], cfg[1].dirs).ext) : k \in 1..Len(Selected)}

\* no name of the run came out empty, so none is the upload file's own name
NoNameEmpty ==
    \A k \in 1..Len(Selected) :
        normalizeAssetName(renderAssetName(Selected[k], uploadPathOf(Selected[k], cfg[1].dirs),
                                           cfg[1].naming)) # ""

\* C12 as stated: every asset name the publisher produces, in every naming mode
\* and with or without a prefix, consists only of [A-Za-z0-9._-] and neither
\* starts nor ends with '-'.
C12_AllNamesSafe == \A k \in DOMAIN UploadedNames : IsSafeName(UploadedNames[k])

\* C12, amended: with no template and no pattern, and extensions made of
\* [A-Za-z0-9._] only, every asset name consists only of [A-Za-z0-9._-] and
\* neither starts nor ends with '-'. In every mode, unless a name came out empty
\* and the upload file's own name was used instead, a name holds no slash,
\* backslash or whitespace, and any other character outside [A-Za-z0-9._-] in it
\* is literal text of the template or pattern (or of the extension in default
\* mode): the substituted values and the prefix are sanitized, the name is not.
C12_ValuesSanitized ==
    \A k \in DOMAIN UploadedNames :
        LET n == UploadedNames[k]
        IN /\ (DefaultMode /\ LiteralChars \subseteq SafeChars \ {"-"}) => IsSafeName(n)
           /\ NoNameEmpty =>
                 /\ CharsOf(n) \cap (Whitespace \cup {"/", "\\"}) = {}
                 /\ CharsOf(n) \ SafeChars \subseteq LiteralChars

\* a finished run whose template holds parentheses and a plus sign: the
\* application name "My App" went in sanitized, the literal text as it was
C12_Witness ==
    /\ pc[1] = "run_done"
    /\ cfg[1].naming = Naming(TemplateB, "", " pre/rel ", "My App", "1.2.3")
    /\ UploadedNames = <<"pre-rel-My-App-(release)+aarch64.dmg">>

\* whether the k-th selected artifact gets a companion signature uploaded
HasCompanion(k) ==
    /\ cfg[1].uploadUpdaterSignatures
    /\ getExtensionInfo(uploadPathOf(Selected[k], cfg[1].dirs)).lower # "sig"
    /\ Selected[k].path \in cfg[1].signed

\* the position, in the uploads of the call, of the k-th selected artifact
PositionOf(k) == k + Cardinality({j \in 1..(k - 1) : HasCompanion(j)})

\* the name computed for the i-th upload of the call before uniqueness: the
\* built name of its artifact, or the artifact's final name followed by ".sig"
ComputedName(i) ==
    LET own == {k \in 1..Len(Selected) : PositionOf(k) = i}
    IN IF own # {}
       THEN LET k == CHOOSE j \in own : TRUE
            IN buildAssetName(Selected[k], uploadPathOf(Selected[k], cfg[1].dirs),
                              cfg[1].naming)
       ELSE UploadedNames[i - 1] \o ".sig"

\* name with -index put before its extension
WithSuffix(name, index) ==
    LET ext == extname(name)
    IN SubSeq(name, 1, Len(name) - Len(ext)) \o "-" \o ToString(index) \o ext

\* C13: within one uploadReleaseAssets call the names used for the uploads
\* (artifacts and companion signatures) are pairwise distinct; an upload whose
\* computed name no earlier upload of the call used keeps it, and one whose
\* computed name is used gets the smallest unused suffix -2, -3, ..., in input
\* order; the names depend on the artifacts and the naming configuration only,
\* not on what the release holds.
C13_UniqueInOrder ==
    /\ \A i, j \in DOMAIN UploadedNames : i # j => UploadedNames[i] # UploadedNames[j]
    /\ \A i \in DOMAIN UploadedNames :
          LET earlier == {UploadedNames[j] : j \in 1..(i - 1)}
              computed == ComputedName(i)
          IN IF computed \notin earlier THEN UploadedNames[i] = computed
             ELSE \E index \in 2..(i + 1) :
                     /\ UploadedNames[i] = WithSuffix(computed, index)
                     /\ \A lower \in 2..(index - 1) : WithSuffix(computed, lower) \in earlier

\* a finished call on the same installer twice, its signature beside it: the
\* second installer and the second signature got -2 before their extensions
C13_Witness ==
    /\ pc[1] = "run_done"
    /\ UploadedNames = <<"MyApp-1.2.3-macos-aarch64-release.dmg",
                         "MyApp-1.2.3-macos-aarch64-release.dmg.sig",
                         "MyApp-1.2.3-macos-aarch64-release-2.dmg",
                         "MyApp-1.2.3-macos-aarch64-release-2.dmg.sig">>

\* the file uploaded for the k-th selected artifact
UploadPath(k) == uploadPathOf(Selected[k], cfg[1].dirs)

\* the k-th selected artifact has been uploaded
IsUploaded(k) == k \in 1..Len(Selected) /\ PositionOf(k) \in DOMAIN UploadedNames

\* name, or name with a suffix -2, -3, ... when an earlier upload of the call
\* took it
NamedAs(k, name) ==
    LET i == PositionOf(k)
    IN IF \A j \in 1..(i - 1) : UploadedNames[j] # name
       THEN UploadedNames[i] = name
       ELSE \E index \in 2..(i + 1) : UploadedNames[i] = WithSuffix(name, index)

NonEmpty(values) == SelectSeq(values, LAMBDA v : v # "")

\* C14 as stated, on a call without a prefix: with no template and no pattern
\* the name of an artifact is its non-empty values among app, version, platform,
\* arch and mode joined with '-', then '.' and the artifact's own extension (for
\* MyApp.dmg, macos, aarch64, release, version 1.2.3 and appName MyApp:
\* MyApp-1.2.3-macos-aarch64-release.dmg).
C14_DefaultAsStated ==
    \A k \in 1..Len(Selected) :
        (IsUploaded(k) /\ DefaultMode /\ cfg[1].naming.assetPrefix = "") =>
            LET a == Selected[k]
            IN NamedAs(k, joinDash(NonEmpty(<<sanitizeAssetNamePart(cfg[1].naming.appName),
                                              a.version, a.platform, a.arch, a.mode>>))
                          \o "." \o a.path.ext)

\* C14, amended: with no template and no pattern the name of an artifact is the
\* sanitized prefix and '-' when a prefix is set, then the non-empty sanitized
\* values among the call's appName and appVersion (not the artifact's version)
\* and the artifact's platform, arch and mode joined with '-', then '.' and the
\* extension of the uploaded file when it has one (zip for a directory), with a
\* suffix -2, -3, ... before the extension when the call used the name before.
\* A template takes priority over a pattern, a pattern over the default name.
C14_DefaultName ==
    \A k \in 1..Len(Selected) :
        IsUploaded(k) =>
            LET a == Selected[k]
                naming == cfg[1].naming
                ext == UploadPath(k).ext
                prefix == sanitizeAssetNamePart(naming.assetPrefix)
                joined == joinDash(NonEmpty(<<sanitizeAssetNamePart(naming.appName),
                                             sanitizeAssetNamePart(naming.appVersion),
                                             a.platform, a.arch, a.mode>>))
            IN /\ DefaultMode =>
                    NamedAs(k, (IF prefix # "" THEN prefix \o "-" ELSE "") \o joined
                               \o (IF ext # "" THEN "." \o ext ELSE ""))
               /\ naming = Naming(TemplateA, PatternA, "", "MyApp", "1.2.3") =>
                    NamedAs(k, "MyApp-1.2.3." \o sanitizeAssetNamePart(ext))
               /\ naming = Naming("", PatternA, "", "MyApp", "1.2.3") =>
                    NamedAs(k, "MyApp_1.2.3_" \o a.platform \o "."
                               \o sanitizeAssetNamePart(ext))

\* a finished call on MyApp.dmg, its signatures not wanted, with appName MyApp
\* and appVersion 1.2.3 and nothing else set
C14_Witness ==
    /\ pc[1] = "run_done"
    /\ cfg[1].naming = Naming("", "", "", "MyApp", "1.2.3")
    /\ cfg[1].artifacts = <<Named("macos", "aarch64", "MyApp", "dmg")>>
    /\ UploadedNames = <<"MyApp-1.2.3-macos-aarch64-release.dmg">>

\* this step is the successful upload that ends uploadAssetWithRetry of process p
UploadReturns(p) ==
    /\ pc[p] = "ul_upload"
    /\ loc[p].stage = "assets"
    /\ pc'[p] # "ul_upload"
    /\ nextAsset' = nextAsset + 1

\* C15: for each computed name every attempt lists the assets of the release,
\* deletes the asset listed under that name (a 404 on the delete is tolerated)
\* and only then uploads; when uploadAssetWithRetry returns, the release holds
\* an asset of that name with the content just uploaded, and the asset id the
\* attempt had listed under that name is gone.
C15_ReplacedOnReturn ==
    [][\A p \in Racers :
         UploadReturns(p) =>
            LET name == CurName(p)
                r == loc[p].rel
                listed == {k \in 1..Len(releases[r].assets) :
                             releases[r].assets[k].id = loc[p].existing}
            IN /\ \E k \in 1..Len(releases'[r].assets) :
                     /\ releases'[r].assets[k].name = name
                     /\ releases'[r].assets[k].src = p
                     /\ releases'[r].assets[k].id = nextAsset
               /\ listed = {}
               /\ \A e \in log' \ log : e.op = "upload" /\ e.by = p /\ e.names = {name}]_vars

\* both runs listed the asset File(1) of the earlier run; run 1 deleted it, the
\* delete of run 2 met a 404, and both then uploaded
C15_Witness ==
    /\ \A p \in Racers : pc[p] = "run_done" /\ loc[p].existing = 2001
    /\ \A e \in Logged({"deleteAsset"}) : e.by = 1
    /\ \A p \in Racers : \E e \in Logged({"upload"}) : e.by = p /\ e.names = {File(1)}
    /\ \A k \in 1..Len(releases[2].assets) : releases[2].assets[k].src \in Racers

\* max(2, retryAttempts + 1)
Budget(p) == IF cfg[p].retryAttempts + 1 > 2 THEN cfg[p].retryAttempts + 1 ELSE 2

\* the upload of process p is refused in this step: the name is on the release
Conflict(p) ==
    /\ pc[p] = "ul_upload"
    /\ pc'[p] # "ul_upload"
    /\ CurName(p) \in assetNames(loc[p].rel)

\* an asset of the given name uploaded by process p is on release 2
HasUploaded(p, name) ==
    \E k \in 1..Len(releases[2].assets) :
        releases[2].assets[k].name = name /\ releases[2].assets[k].src = p

\* C16: the list-delete-upload sequence of one asset, and of latest.json, is
\* attempted at most max(2, retryAttempts + 1) times; a 422 on the upload starts
\* another attempt while attempts remain, and on the last attempt it ends the
\* run with an error: nothing more is uploaded by that run.
C16_BoundedAttempts ==
    [][\A p \in Procs :
         /\ loc'[p].att <= Budget(p)
         /\ Conflict(p) =>
               IF loc[p].att < Budget(p)
               THEN pc'[p] = "ul_list" /\ loc'[p].att = loc[p].att + 1
                    /\ loc'[p].idx = loc[p].idx /\ loc'[p].stage = loc[p].stage
               ELSE pc'[p] = "run_fail"
         /\ pc[p] = "run_fail" => pc'[p] = "run_fail" /\ loc'[p] = loc[p]
         /\ (pc'[p] = "run_fail" /\ loc'[p].stage = "assets") =>
               /\ loc'[p].att = Budget(p)
               /\ \A j \in (loc'[p].idx)..Len(cfg[p].names) : ~HasUploaded(p, cfg[p].names[j])'
               /\ ~HasUploaded(p, UPDATER_JSON_ASSET_NAME)'
         /\ (pc'[p] = "run_fail" /\ loc'[p].stage = "manifest") =>
               /\ loc'[p].att = Budget(p)
               /\ ~HasUploaded(p, UPDATER_JSON_ASSET_NAME)']_vars

\* run 1, with two attempts, met a conflict on File(1) in both: it failed, and
\* uploaded neither File(1) nor File(2)
C16_Witness ==
    /\ pc[1] = "run_fail"
    /\ cfg[1].retryAttempts = 0
    /\ loc[1].stage = "assets" /\ loc[1].idx = 1 /\ loc[1].att = 2
    /\ ~HasUploaded(1, File(1)) /\ ~HasUploaded(1, File(2))
    /\ HasUploaded(2, File(1)) \/ HasUploaded(3, File(1))

\* C17: a 401/403 answered to any remote call leaves the operation at once and
\* unchanged: the call is not tried again, and neither the lookup polls of
\* ensureRelease nor the retry around an upload take it for "not found yet" or
\* for a failed attempt.
C17_AuthPropagates ==
    [][\A p \in Racers :
         Denials(p)' # Denials(p) => pc'[p] \in {"er_fail", "run_fail"}]_vars

\* C18: a remote 404 is absence, not an error: the lookups of a release by tag
\* and by id go on without it, the delete of an asset that is gone is ignored,
\* and the fetch of the release in uploadUpdaterJson does not end the run with
\* an error only because the release does not exist.
C18_NotFoundIsAbsence ==
    [][\A p \in Procs :
         /\ (pc[p] = "er_direct" /\ getReleaseByTag(TagName) = {}) => pc'[p] = "er_list"
         /\ (pc[p] = "run_getrel" /\ pc'[p] # pc[p]) => pc'[p] # "run_fail"
         /\ (pc[p] = "ul_delasset" /\ pc'[p] # pc[p] /\ ~AssetLive(loc[p].existing)) =>
               pc'[p] = "ul_upload"
         /\ (pc[p] = "uj_getrel" /\ pc'[p] # pc[p] /\ loc[p].rel \notin DOMAIN releases) =>
               pc'[p] # "run_fail"]_vars

\* the duplicate the cleanup of process p is at
CleanupTarget(p) == loc[p].sorted[loc[p].k]

OwnCandidate(i, a) ==
    buildUpdaterCandidateFromReleaseAsset(a.name, cfg[a.src].uploadedAssets, releases[i].tag)

\* the assets of release i that are candidates
CandidateAssets(i) ==
    {k \in 1..Len(releases[i].assets) :
        /\ releases[i].assets[k].src # None
        /\ OwnCandidate(i, releases[i].assets[k]) # NoCandidate}

\* rank of a format in the priority list of the platform, nsis first on
\* Windows when preferNsis is set
Rank(candidate, preferNsis) ==
    LET list == IF candidate.platform = "windows" /\ preferNsis
                THEN <<"nsis", "msi", "exe">>
                ELSE UPDATER_FORMAT_PRIORITY(candidate.platform)
        at == {n \in 1..Len(list) : list[n] = candidate.format}
    IN IF at = {} THEN Len(list) + 1 ELSE CHOOSE n \in at : TRUE

\* in platforms, the base key of every candidate asset of release i holds the
\* entry of a candidate asset of that platform and architecture of best rank
BaseKeysBest(platforms, i, preferNsis) ==
    LET own(k) == OwnCandidate(i, releases[i].assets[k])
    IN \A k \in CandidateAssets(i) :
         /\ baseKeyOf(own(k)) \in DOMAIN platforms
         /\ \E j \in CandidateAssets(i) :
               /\ baseKeyOf(own(j)) = baseKeyOf(own(k))
               /\ platforms[baseKeyOf(own(k))].url = own(j).url
               /\ \A n \in CandidateAssets(i) :
                     baseKeyOf(own(n)) = baseKeyOf(own(k)) =>
                         Rank(own(j), preferNsis) <= Rank(own(n), preferNsis)

\* in platforms, every candidate asset of release i is under its fully-qualified key
SpecificKeysHeld(platforms, i) ==
    LET own(k) == OwnCandidate(i, releases[i].assets[k])
    IN \A k \in CandidateAssets(i) :
         own(k).format # "" =>
             /\ specificKeyOf(own(k)) \in DOMAIN platforms
             /\ platforms[specificKeyOf(own(k))].url = own(k).url

\* process p has listed the assets and built the manifest it goes on to write
BuildsManifest(p) ==
    /\ pc[p] \in {"uj_list", "uj_download"}
    /\ pc'[p] = "ul_list"
    /\ loc'[p].stage = "manifest"

\* C20: in every manifest uploadUpdaterJson builds, each base key holds the
\* entry of the asset on the release whose format ranks best for the platform
\* (nsis first on Windows when preferNsis is set) and every candidate is under
\* its fully-qualified key, whichever run uploaded the assets.
C20_BaseKeyBest ==
    [][\A p \in Racers :
         BuildsManifest(p) =>
             /\ BaseKeysBest(loc'[p].doc, loc[p].rel, cfg[p].updaterJsonPreferNsis)
             /\ SpecificKeysHeld(loc'[p].doc, loc[p].rel)]_vars

\* the manifest asset persisted on release i, in a sequence: <<>> when none
Persisted(i) ==
    IF i \notin DOMAIN releases THEN <<>>
    ELSE SelectSeq(releases[i].assets, LAMBDA a : a.name = UPDATER_JSON_ASSET_NAME)

\* the call of p has read the manifest of its release and builds the new one
MergesOnto(p) ==
    /\ pc[p] = "uj_download"
    /\ BuildsManifest(p)
    /\ Len(Persisted(loc[p].rel)) = 1
    /\ Persisted(loc[p].rel)[1].valid

\* both urls lead to the asset of one name
SameFile(a, b, i) == \E n \in assetNames(i) : endsWith(a, "/" \o n) /\ endsWith(b, "/" \o n)

\* C21: when the manifest read has windows-x86_64 at an .nsis.exe installer and
\* the call, with the default priority, is given an uploaded .msi of
\* windows/x86_64, the manifest built has windows-x86_64 at the url of the .msi
\* and a key windows-x86_64-nsis that leads to the installer the old entry led to
C21_NsisPreserved ==
    [][\A p \in Racers :
         (/\ MergesOnto(p)
          /\ ~cfg[p].updaterJsonPreferNsis
          /\ cfg[p].uploadedAssets = MsiUploads
          /\ "windows-x86_64" \in DOMAIN Persisted(loc[p].rel)[1].doc
          /\ endsWith(Persisted(loc[p].rel)[1].doc["windows-x86_64"].url, ".nsis.exe"))
         => /\ loc'[p].doc["windows-x86_64"].url =
                  releaseAssetUrl(loc[p].resolvedReleaseTag, "App-1.2.3.msi")
            /\ "windows-x86_64-nsis" \in DOMAIN loc'[p].doc
            /\ SameFile(loc'[p].doc["windows-x86_64-nsis"].url,
                        Persisted(loc[p].rel)[1].doc["windows-x86_64"].url,
                        loc[p].rel)]_vars

\* the keys the candidate is filed under
KeysOf(candidate) ==
    {baseKeyOf(candidate)}
    \cup (IF candidate.format = "" THEN {} ELSE {specificKeyOf(candidate)})

\* the candidates of the call of p, from the assets it listed
Produced(p) == Candidates(loc[p].listed, cfg[p].uploadedAssets, loc[p].resolvedReleaseTag)

\* both calls have written a manifest and returned
BothWrote ==
    /\ pc[1] = "run_done" /\ loc[1].stage = "manifest"
    /\ pc[2] = "run_done" /\ loc[2].stage = "manifest"

\* C22: the manifest built holds, under every key of the manifest read that no
\* candidate of the call is filed under, the entry read, and under every other
\* key of it the entry of a candidate of the call filed under that key; after
\* the second of two calls in a row the persisted manifest has every key the
\* first call wrote
C22_MergeOnto ==
    [][/\ \A p \in Racers :
            MergesOnto(p) =>
                LET old == Persisted(loc[p].rel)[1].doc
                    new == loc'[p].doc
                    made == UNION {KeysOf(Produced(p)[k]) : k \in 1..Len(Produced(p))}
                IN /\ DOMAIN new = DOMAIN old \cup made
                   /\ \A key \in DOMAIN old \ made : new[key] = old[key]
                   /\ \A key \in made :
                         \E k \in 1..Len(Produced(p)) :
                             /\ key \in KeysOf(Produced(p)[k])
                             /\ new[key] = entryOf(loc[p].listed, Produced(p)[k])
       /\ BothWrote' =>
             /\ Len(Persisted(2)') = 1
             /\ DOMAIN loc'[1].doc \subseteq DOMAIN Persisted(2)'[1].doc]_vars

\* the second call has kept a key of the manifest of the macOS job, which neither
\* call produced, and overwritten the base key the first call wrote
C22_Witness ==
    /\ BothWrote
    /\ cfg[2].uploadedAssets = LinuxUploads
    /\ Persisted(2)[1].src = 2
    /\ "darwin-aarch64" \in DOMAIN Persisted(2)[1].doc
    /\ Persisted(2)[1].doc["darwin-aarch64"] = Entry("app.dmg")
    /\ "linux-x86_64" \in DOMAIN Persisted(2)[1].doc
    /\ "windows-x86_64-msi" \in DOMAIN Persisted(2)[1].doc

\* the persisted manifest of release i has an entry that leads to the asset
HasEntryFor(i, name) ==
    /\ Len(Persisted(i)) > 0
    /\ \E key \in DOMAIN Persisted(i)[Len(Persisted(i))].doc :
          Persisted(i)[Len(Persisted(i))].doc[key].url
              = releaseAssetUrl(releases[i].tag, name)

\* C23: once every job has uploaded its assets and written the manifest, the
\* persisted manifest has an entry for every asset of every job
C23_NoEntryLost ==
    (\A p \in Racers : pc[p] = "run_done")
        => \A p \in Racers : \A k \in 1..Len(cfg[p].uploadedAssets) :
               HasEntryFor(2, cfg[p].uploadedAssets[k].name)

\* C24: when the second of two calls in a row has the arguments of the first and
\* is given no uploaded asset the first was not given (the same ones, or none),
\* the document it writes has the version, the notes and the platforms the
\* first wrote, and its pub_date when no releaseCreatedAt is given
C24_RoundTrip ==
    (/\ BothWrote
     /\ cfg[2].params = cfg[1].params
     /\ cfg[2].uploadedAssets \in {<<>>, cfg[1].uploadedAssets})
        => /\ loc[2].head.version = loc[1].head.version
           /\ loc[2].head.notes = loc[1].head.notes
           /\ loc[2].doc = loc[1].doc
           /\ cfg[2].params.releaseCreatedAt = ""
                 => loc[2].head.pub_date = loc[1].head.pub_date

\* version, notes and pub_date of the manifest the call of p has read: none
\* where it found no manifest or could not read it
PreviousHead(p) ==
    IF pc[p] = "uj_download" /\ Len(Persisted(loc[p].rel)) > 0
                            /\ Persisted(loc[p].rel)[Len(Persisted(loc[p].rel))].valid
    THEN Persisted(loc[p].rel)[Len(Persisted(loc[p].rel))].head
    ELSE NoHead

\* the first of the texts that is not empty
FirstOf(texts) == Head(SelectSeq(texts, LAMBDA t : t # ""))

\* the tag without a refs/tags/ or tags/ prefix and without one leading v
BareVersion(tag) ==
    IF normalizeTagName(tag) # "" /\ Head(normalizeTagName(tag)) = "v"
    THEN Tail(normalizeTagName(tag))
    ELSE normalizeTagName(tag)

\* C25: the version of the manifest built is the application version given
\* when it is not blank, else the tag given, when not blank, without its prefix
\* and without one leading v, else the version of the previous manifest, else
\* 0.0.0; the notes are the release body given, else those of the previous
\* manifest, else the default note; pub_date is the created-at given, else that
\* of the previous manifest, else the time of the call
C25_ResolutionOrder ==
    [][\A p \in Racers :
         BuildsManifest(p) =>
             LET given == cfg[p].params
                 previous == PreviousHead(p)
             IN /\ loc'[p].head.version =
                      IF trim(given.appVersion) # "" THEN trim(given.appVersion)
                      ELSE IF normalizeTagName(given.releaseTagName) # ""
                      THEN BareVersion(given.releaseTagName)
                      ELSE FirstOf(<<previous.version, "0.0.0">>)
                /\ loc'[p].head.notes =
                      FirstOf(<<trim(given.releaseBody), previous.notes, DEFAULT_NOTES>>)
                /\ loc'[p].head.pub_date =
                      FirstOf(<<trim(given.releaseCreatedAt), previous.pub_date,
                               Stamp(clock)>>)]_vars

\* a call given no version, no tag, no body and no created-at has written the
\* version, the notes and the pub_date of the manifest it found
C25_Witness ==
    /\ pc[1] = "run_done"
    /\ cfg[1].params = NoParams
    /\ Len(Persisted(2)) = 1
    /\ Persisted(2)[1].src = 1
    /\ Persisted(2)[1].head = OldHead

\* the manifest the call of p listed cannot be read now: it is gone, or its
\* text is not JSON
Unreadable(p) ==
    \/ Len(Persisted(loc[p].rel)) = 0
    \/ ~Persisted(loc[p].rel)[Len(Persisted(loc[p].rel))].valid

C27_Idempotent ==
    [][\A p \in Procs :
         (pc[p] = "er_tag" /\ pc'[p] = "er_find") => loc'[p].tagName = loc[p].tagName]_vars

\* C28: a call whose creation of the tag ref fails does not fail: it goes on
\* towards the create
C28_RefFailureProceeds ==
    [][\A p \in Racers :
         pc[p] \in {"er_tagref", "er_getref"} => pc'[p] # "er_fail"]_vars

\* process p takes the step
Steps(p) == pc'[p] # pc[p] \/ loc'[p] # loc[p]

\* the release a call returns at this step
Returned(p, i) == pc'[p] = "er_done" /\ ret'[p] = Append(ret[p], i)

\* C29: after 'ref already exists' the call looks the release up at most
\* POLL_ATTEMPTS times; a release found by one of these lookups is returned as
\* it is when the call has no name and no body, and is else updated in place,
\* name and body from the call, and returned; such a call creates no release;
\* only the last lookup finding nothing leads on to the create
C29_PollThenFound ==
    [][\A p \in Racers :
         (loc[p].phase = "poll" /\ Steps(p)) =>
             /\ loc[p].tagLock = "exists"
             /\ loc[p].n <= POLL_ATTEMPTS
             /\ loc'[p].phase = "poll" => loc'[p].n <= POLL_ATTEMPTS
             /\ pc'[p] \notin {"er_create", "er_stab"}
             /\ loc'[p].created = None
             /\ {e \in log' : e.op = "create" /\ e.by = p} = {}
             /\ pc[p] \in {"er_direct", "er_list"} =>
                   /\ pc'[p] = "er_done" =>
                         /\ ~shouldUpdate(p)
                         /\ \E i \in TagReleases : Returned(p, i)
                         /\ releases' = releases
                   /\ pc'[p] = "er_update" =>
                         /\ shouldUpdate(p)
                         /\ loc'[p].found \in TagReleases
                   /\ (TagReleases # {} /\ pc[p] = "er_list") =>
                         pc'[p] \in {"er_done", "er_update"}
                   /\ loc'[p].phase # "poll" =>
                         /\ loc'[p].phase = "recheck"
                         /\ loc[p].n = POLL_ATTEMPTS
                         /\ TagReleases = {}
             /\ (pc[p] = "er_update" /\ loc[p].found \in DOMAIN releases) =>
                   /\ Returned(p, loc[p].found)
                   /\ DOMAIN releases' = DOMAIN releases
                   /\ \A i \in DOMAIN releases \ {loc[p].found} : releases'[i] = releases[i]
                   /\ cfg[p].releaseName # NoStr =>
                         releases'[loc[p].found].name = cfg[p].releaseName
                   /\ cfg[p].releaseBody # NoStr =>
                         releases'[loc[p].found].body = cfg[p].releaseBody
                   /\ releases'[loc[p].found].assets = releases[loc[p].found].assets
                   /\ releases'[loc[p].found].tag = releases[loc[p].found].tag]_vars

\* a call with a name found the ref taken, saw no release at its first lookup,
\* saw one at a later lookup, updated it and returned it, creating none
C29_Witness ==
    \E p \in Racers :
        /\ pc[p] = "er_done"
        /\ loc[p].tagLock = "exists"
        /\ loc[p].phase = "poll"
        /\ loc[p].n > 1
        /\ shouldUpdate(p)
        /\ \E e \in log : e.op = "update" /\ e.by = p /\ <<e.rel>> = ret[p]
        /\ loc[p].created = None

\* the ids a listing of the tag's releases shows now
Observed == Range(listReleasesByTag(TagName))

\* the observed releases that no observed release precedes in created_at
Earliest == {i \in Observed : \A j \in Observed : releases[i].created_at <= releases[j].created_at}

\* C30 as stated: a poll that observes the set of ids the poll before it
\* observed is the last poll
C30_StopsOnEqualSets ==
    [][\A p \in Procs :
         (pc[p] = "er_stab" /\ Steps(p) /\ loc[p].n >= 2
              /\ Range(loc[p].resolved) = Observed) =>
             pc'[p] # "er_stab"]_vars

\* C30: after its create a call lists the tag's releases at most
\* STABILIZE_ATTEMPTS times; it stops at the first listing that shows the ids
\* shown by the latest earlier listing that was not empty, and at the last
\* attempt; the canonical release is one of the earliest by created_at of the
\* listing it stopped at; when there is one and it is not the created release,
\* the created release is deleted and the canonical one returned; else the
\* created one is returned; no call returns the id of a release it deleted
C30_Stabilization ==
    [][\A p \in Procs :
         /\ (pc[p] = "er_stab" /\ Steps(p)) =>
               /\ loc[p].n <= STABILIZE_ATTEMPTS
               /\ pc'[p] = "er_stab" <=>
                     /\ loc[p].n < STABILIZE_ATTEMPTS
                     /\ ~(Observed # {} /\ Observed = Range(loc[p].lastKey))
               /\ pc'[p] = "er_stab" => loc'[p].n = loc[p].n + 1
               /\ pc'[p] # "er_stab" =>
                     \/ /\ pc'[p] = "er_delete"
                        /\ loc'[p].canonical \in Earliest \ {loc[p].created}
                        /\ ret'[p] = ret[p]
                     \/ /\ Returned(p, loc[p].created)
                        /\ Observed = {} \/ loc[p].created \in Earliest
               /\ releases' = releases
         /\ (pc[p] = "er_delete" /\ Steps(p)) =>
               /\ loc[p].canonical # loc[p].created
               /\ Returned(p, loc[p].canonical)
               /\ DOMAIN releases' = DOMAIN releases \ {loc[p].created}
         /\ \A e \in log' : (e.op = "deleteCreated" /\ e.by = p) => e.rel \notin Range(ret'[p])]_vars

\* a call has stopped before its last attempt on a listing that showed an
\* earlier release next to the one it created, deleted its own and returned
\* the earlier one
C30_Witness ==
    \E p \in Racers :
        /\ pc[p] = "er_done"
        /\ loc[p].n < STABILIZE_ATTEMPTS
        /\ loc[p].canonical # None
        /\ ret[p] = <<loc[p].canonical>>
        /\ loc[p].created \notin DOMAIN releases
        /\ \E e \in log : e.op = "deleteCreated" /\ e.by = p /\ e.rel = loc[p].created
        /\ loc[p].createdAt > 1

\* C31: a call comes to createRelease only from the last lookup of the
\* re-check having found no release; a release found by the re-check is
\* returned and nothing is created; the call issues at most two createRelease
\* calls, the second without commitish and only after the store refused the
\* commit of the first with a 422
C31_CreateAfterRecheck ==
    [][\A p \in Racers :
         /\ loc'[p].creates <= 2
         /\ (pc'[p] = "er_create" /\ pc[p] # "er_create") =>
               /\ pc[p] = "er_list"
               /\ loc[p].phase = "recheck"
               /\ loc[p].n = RECHECK_ATTEMPTS
               /\ TagReleases = {}
               /\ loc[p].creates = 0
         /\ (/\ loc[p].phase = "recheck"
             /\ Steps(p)
             /\ \/ pc[p] = "er_direct" /\ getReleaseByTag(TagName) # {}
                \/ pc[p] = "er_list" /\ TagReleases # {}) =>
               /\ \E i \in TagReleases : Returned(p, i)
               /\ loc'[p].creates = 0
         /\ (pc[p] = "er_create" /\ Steps(p)) =>
               /\ loc[p].creates = 0
               /\ loc'[p].creates = 1
               /\ pc'[p] \in {"er_create2", "er_stab", "er_direct"}
         /\ (pc'[p] = "er_create2" /\ pc[p] # "er_create2") =>
               /\ pc[p] = "er_create"
               /\ UnknownCommit(p) /\ ~tagRef
         /\ (pc[p] = "er_create2" /\ Steps(p)) =>
               /\ loc'[p].creates = 2
               /\ pc'[p] \in {"er_stab", "er_direct"}
         /\ (loc'[p].creates # loc[p].creates) => pc[p] \in {"er_create", "er_create2"}]_vars

\* a call has returned the release that its second createRelease call made
C31_Witness ==
    \E p \in Racers :
        /\ pc[p] = "er_done"
        /\ loc[p].creates = 2
        /\ ret[p] = <<loc[p].created>>
        /\ loc[p].created \in DOMAIN releases

\* the store holds a published release of the tag: a createRelease call for a
\* published release is answered with a 422
CreateConflicts(p) == ~cfg[p].draft /\ getReleaseByTag(TagName) # {}

\* C32: a call whose createRelease was refused for a concurrent creator creates
\* nothing afterwards, looks the release up at most CONFLICT_ATTEMPTS times,
\* returns the release a lookup finds, as it is, and fails without returning an
\* id when the last lookup finds none
C32_ConflictLookup ==
    [][\A p \in Procs :
         /\ (pc[p] \in {"er_create", "er_create2"} /\ Steps(p) /\ ~CommitRejected(p)
                /\ CreateConflicts(p)) =>
               /\ loc'[p].phase = "conflict"
               /\ loc'[p].n = 1
               /\ pc'[p] = "er_direct"
               /\ releases' = releases
         /\ (loc[p].phase = "conflict" /\ pc[p] \in {"er_direct", "er_list"} /\ Steps(p)) =>
               /\ loc[p].n <= CONFLICT_ATTEMPTS
               /\ loc'[p].creates = loc[p].creates
               /\ loc'[p].created = None
               /\ storeVars' = storeVars
               /\ log' = log
               /\ pc'[p] \in {"er_direct", "er_list", "er_done", "er_fail"}
               /\ loc'[p].phase = "conflict"
               /\ (\/ pc[p] = "er_direct" /\ getReleaseByTag(TagName) # {}
                   \/ pc[p] = "er_list" /\ TagReleases # {}) =>
                     \E i \in TagReleases : Returned(p, i)
               /\ pc'[p] = "er_done" => \E i \in TagReleases : Returned(p, i)
               /\ pc'[p] = "er_fail" <=>
                     (pc[p] = "er_list" /\ TagReleases = {} /\ loc[p].n = CONFLICT_ATTEMPTS)
               /\ pc'[p] = "er_fail" => ret'[p] = ret[p]]_vars

\* a call was refused the create and has returned the release of another call
C32_Witness ==
    \E p \in Procs :
        /\ loc[p].phase = "conflict"
        /\ pc[p] = "er_done"
        /\ loc[p].creates = 1
        /\ Len(ret[p]) = 1
        /\ \E e \in log : e.op = "create" /\ e.by # p /\ e.rel = ret[p][1]

\* a call was refused the create and has failed: the releases of the tag were
\* deleted before its lookups
ConflictFailed ==
    \E p \in Procs :
        /\ loc[p].phase = "conflict"
        /\ pc[p] = "er_fail"
        /\ ret[p] = <<>>

\* the call of p takes release i for the found one: returns it, or goes on to
\* update it when a name or a body was given
TakesFound(p, i) ==
    IF shouldUpdate(p)
    THEN pc'[p] = "er_update" /\ loc'[p].found = i /\ ret'[p] = ret[p]
    ELSE Returned(p, i)

C34_FoundIsUpdated ==
    [][\A p \in Racers :
         (pc[p] \in {"er_direct", "er_list", "er_update"} /\ pc'[p] = "er_done") =>
             \A i \in DOMAIN releases' :
                 Returned(p, i) =>
                     /\ cfg[p].releaseName # NoStr => releases'[i].name = cfg[p].releaseName
                     /\ cfg[p].releaseBody # NoStr => releases'[i].body = cfg[p].releaseBody]_vars

\* the attempts 1, 2, ... n
UpTo(n) == [k \in 1..n |-> k]

\* the first invocation of fn that succeeds, 0 if none of the first n does
RECURSIVE FirstSuccess(_, _)
FirstSuccess(outcomes, k) ==
    IF k > Len(outcomes) THEN 0
    ELSE IF outcomes[k] THEN k
    ELSE FirstSuccess(outcomes, k + 1)

\* C35: retry invokes fn at attempts 1, 2, ... in order and never more than
\* retries times; it returns the result of the first invocation that succeeds,
\* having invoked fn no further; when all fail it throws the error of the last
\* one; onRetry is called with the number of each failed attempt but the last
C35_Retry ==
    \A p \in {1} :
        /\ Len(loc[p].invoked) <= cfg[p].retries
        /\ loc[p].invoked = UpTo(Len(loc[p].invoked))
        /\ pc[p] = "rt_returned" =>
              /\ FirstSuccess(cfg[p].outcomes, 1) # 0
              /\ ret[p] = <<FirstSuccess(cfg[p].outcomes, 1)>>
              /\ loc[p].invoked = UpTo(FirstSuccess(cfg[p].outcomes, 1))
              /\ loc[p].notified =
                    IF cfg[p].onRetry THEN UpTo(FirstSuccess(cfg[p].outcomes, 1) - 1) ELSE <<>>
        /\ pc[p] = "rt_thrown" =>
              /\ FirstSuccess(cfg[p].outcomes, 1) = 0
              /\ ret[p] = <<>>
              /\ loc[p].invoked = UpTo(cfg[p].retries)
              /\ loc[p].lastError = cfg[p].retries
              /\ loc[p].notified = IF cfg[p].onRetry THEN UpTo(cfg[p].retries - 1) ELSE <<>>

\* three invocations failed: the third error is thrown after two onRetry calls
C35_Witness ==
    /\ pc[1] = "rt_thrown"
    /\ cfg[1].retries = 3
    /\ loc[1].invoked = <<1, 2, 3>>
    /\ loc[1].lastError = 3
    /\ loc[1].notified = <<1, 2>>

-----------------------------------------------------------------------------
(* One run in tag mode while another writer keeps changing the store *)

MaxLiveId == 2
MaxLiveAsset == 1

\* the writer that is not a run of the action
Writer == CHOOSE p \in Procs : p \notin Racers

\* another writer creates a release of the tag
WriterCreates ==
    /\ nextId <= MaxLiveId
    /\ \E d \in BOOLEAN :
         /\ d \/ getReleaseByTag(TagName) = {}
         /\ releases' = [i \in DOMAIN releases \cup {nextId} |->
                           IF i = nextId THEN Rel(nextId, clock, d, <<>>) ELSE releases[i]]
    /\ nextId' = nextId + 1
    /\ log' = log \cup {LogEntry("written", Writer, nextId, {}, None, {})}
    /\ UNCHANGED <<tagRef, clock, nextAsset, listDesc, rejectDup, cfg, pc, loc, ret>>

\* another writer deletes a release of the tag
WriterDeletes ==
    /\ \E i \in TagReleases :
         /\ releases' = [j \in DOMAIN releases \ {i} |-> releases[j]]
         /\ log' = log \cup {LogEntry("written", Writer, i, {}, None, {})}
    /\ UNCHANGED <<tagRef, clock, nextId, nextAsset, listDesc, rejectDup, cfg, pc, loc, ret>>

\* another writer publishes a draft of the tag or turns a release into a draft
WriterFlips ==
    /\ \E i \in TagReleases :
         /\ ~releases[i].draft \/ getReleaseByTag(TagName) = {}
         /\ releases' = [releases EXCEPT ![i].draft = ~@]
         /\ log' = log \cup {LogEntry("written", Writer, i, {}, None, {})}
    /\ UNCHANGED <<tagRef, clock, nextId, nextAsset, listDesc, rejectDup, cfg, pc, loc, ret>>

\* another writer uploads an asset of a name the run uses
WriterUploads ==
    /\ nextAsset <= MaxLiveAsset
    /\ \E i \in TagReleases, name \in {File(1), UPDATER_JSON_ASSET_NAME} :
         /\ name \notin assetNames(i)
         /\ releases' = [releases EXCEPT ![i].assets =
                Append(@, [id |-> nextAsset, name |-> name, src |-> Writer,
                           doc |-> <<>>, head |-> NoHead, valid |-> FALSE])]
         /\ log' = log \cup {LogEntry("written", Writer, i, {}, None, {})}
    /\ nextAsset' = nextAsset + 1
    /\ UNCHANGED <<tagRef, clock, nextId, listDesc, rejectDup, cfg, pc, loc, ret>>

\* another writer deletes an asset
WriterRemoves ==
    /\ \E i \in TagReleases : \E k \in 1..Len(releases[i].assets) :
         /\ releases' = [releases EXCEPT ![i].assets =
                SubSeq(@, 1, k - 1) \o SubSeq(@, k + 1, Len(@))]
         /\ log' = log \cup {LogEntry("written", Writer, i, {}, None, {})}
    /\ UNCHANGED <<tagRef, clock, nextId, nextAsset, listDesc, rejectDup, cfg, pc, loc, ret>>

InitLive ==
    /\ releases = (1 :> ForeignRelease)
    /\ tagRef = TRUE
    /\ clock = 1
    /\ nextId = 2
    /\ nextAsset = 1
    /\ listDesc = TRUE
    /\ rejectDup = TRUE
    /\ \E d \in BOOLEAN :
         cfg = [p \in Procs |->
                  IF p = 1 THEN TagRun("title", NoStr, d, FALSE, <<File(1)>>, TRUE, 0)
                  ELSE IdleRun]
    /\ pc = [p \in Procs |-> IF p = 1 THEN "er_direct" ELSE "idle"]
    /\ loc = [p \in Procs |-> InitLoc]
    /\ ret = [p \in Procs |-> <<>>]
    /\ log = {}

NextLive ==
    \/ RunStep(1)
    \/ WriterCreates
    \/ WriterDeletes
    \/ WriterFlips
    \/ WriterUploads
    \/ WriterRemoves

\* the steps of the run but the listing and the download of the manifest
CallReturns(p) ==
    \/ EnsureReleaseStep(p)
    \/ GetReleaseById(p)
    \/ UploadStep(p)
    \/ ManifestGetRelease(p)
    \/ CleanupStep(p)

\* listReleaseAssets and the download of uploadUpdaterJson return: the run does
\* not wait at either for ever (ManifestList and ManifestDownload have no guard
\* but the position)
ManifestReturns(p) == []<>(pc[p] \notin {"uj_list", "uj_download"})

\* every remote call of the run returns; the other writer owes nothing
SpecLive ==
    InitLive /\ [][NextLive]_vars /\ WF_vars(CallReturns(1)) /\ ManifestReturns(1)

\* the run is over: run() returned, or an error left it
Over(p) == pc[p] \in {"run_done", "run_fail", "er_fail"}

\* C36: a run whose remote calls all return comes to an end, returning or
\* throwing, whatever another writer does to the store meanwhile and however long
\* that writer goes on: no poll or retry loop of ensureRelease, the uploads, the
\* manifest or the cleanup is kept running by the changes
C36_Terminates == <>Over(1)

\* the run created a release and returned, the writer having changed that
\* release and another one of the tag
C36_Witness ==
    /\ pc[1] = "run_done"
    /\ loc[1].created # None
    /\ \E e \in log : e.op = "written" /\ e.rel = loc[1].created
    /\ \E e \in log : e.op = "written" /\ e.rel # loc[1].created

-----------------------------------------------------------------------------
(* Companion signatures *)

\* the uploads of the call that are of companion signatures
CompanionPositions == {PositionOf(k) + 1 : k \in {j \in 1..Len(Selected) : HasCompanion(j)}}

\* the upload before the i-th is of an artifact, and the i-th is not
FollowsItsParent(i) ==
    /\ i - 1 \in DOMAIN UploadedNames
    /\ i - 1 \notin CompanionPositions
    /\ \E k \in 1..Len(Selected) : HasCompanion(k) /\ PositionOf(k) = i - 1

\* the k-th artifact is uploaded after everything the artifacts before it
\* brought: the artifacts themselves and their companion signatures
ArtifactsInOrder ==
    \A i \in DOMAIN UploadedNames :
        i \notin CompanionPositions =>
            \E k \in 1..Len(Selected) :
                /\ PositionOf(k) = i
                /\ NamedAs(k, buildAssetName(Selected[k], UploadPath(k), cfg[1].naming))

\* with signature upload off nothing uploaded is a signature: no file with the
\* extension sig, no companion
NoSignatureWhenOff ==
    ~cfg[1].uploadUpdaterSignatures =>
        /\ Len(UploadedNames) <= Len(Selected)
        /\ \A k \in 1..Len(Selected) : getExtensionInfo(UploadPath(k)).lower # "sig"
        /\ \A i \in DOMAIN UploadedNames : ~isSignatureAssetName(UploadedNames[i])

\* the call is over and returned
UploadsReturned == pc[1] = "run_done"

\* uploadedAssets as returned: the artifacts' uploads, no companion's
ReturnsArtifactsOnly ==
    UploadsReturned =>
        /\ Len(UploadedNames) = Len(Selected) + Cardinality(CompanionPositions)
        /\ loc[1].uploaded = {UploadedNames[PositionOf(k)] : k \in 1..Len(Selected)}

\* C37 as stated: with signature upload on and a <artifact-path>.sig file beside
\* the artifact, the signature is uploaded under the name <assetName>.sig after
\* the upload of its artifact and before that of the next artifact; with
\* signature upload off no .sig asset is uploaded; the companion uploads are not
\* in the returned list.
C37_NamedAfterParent ==
    /\ \A i \in DOMAIN UploadedNames :
          i \in CompanionPositions =>
              FollowsItsParent(i) /\ UploadedNames[i] = UploadedNames[i - 1] \o ".sig"
    /\ ArtifactsInOrder
    /\ NoSignatureWhenOff
    /\ ReturnsArtifactsOnly

\* C37, amended: the signature is uploaded right after its artifact and before
\* the next artifact, under <assetName>.sig or, when an earlier upload of the
\* call has that name, under it with the smallest free suffix -2, -3, ... before
\* .sig; with signature upload off no signature is uploaded; the companion
\* uploads are not in the returned list.
C37_SignatureAfterParent ==
    /\ \A i \in DOMAIN UploadedNames :
          i \in CompanionPositions =>
              /\ FollowsItsParent(i)
              /\ IF \A j \in 1..(i - 1) : UploadedNames[j] # UploadedNames[i - 1] \o ".sig"
                 THEN UploadedNames[i] = UploadedNames[i - 1] \o ".sig"
                 ELSE \E index \in 2..(i + 1) :
                        /\ UploadedNames[i] = WithSuffix(UploadedNames[i - 1] \o ".sig", index)
                        /\ \A lower \in 2..(index - 1) :
                              \E j \in 1..(i - 1) :
                                 UploadedNames[j] = WithSuffix(UploadedNames[i - 1] \o ".sig", lower)
    /\ ArtifactsInOrder
    /\ NoSignatureWhenOff
    /\ ReturnsArtifactsOnly

\* a returned call that uploaded the signature artifact under its file name,
\* then the package and the package's companion, whose name was taken
C37_Witness ==
    /\ UploadsReturned
    /\ cfg[1].uploadUpdaterSignatures
    /\ UploadedNames = <<"MyApp.hap.sig", "MyApp.hap", "MyApp.hap-2.sig">>
    /\ loc[1].uploaded = {"MyApp.hap.sig", "MyApp.hap"}

\* a returned call with signature upload off: the installer alone
SignaturesOff ==
    /\ UploadsReturned
    /\ ~cfg[1].uploadUpdaterSignatures
    /\ Len(cfg[1].artifacts) = 2
    /\ Len(UploadedNames) = 1
    /\ cfg[1].artifacts[1].path \in cfg[1].signed

-----------------------------------------------------------------------------
(* What becomes of a returned release *)

\* the step deletes release i, and the process that deletes it is not p
DeletedByAnother(p, i) ==
    /\ i \in DOMAIN releases
    /\ i \notin DOMAIN releases'
    /\ \E e \in log' \ log : e.op \in {"delete", "deleteCreated"} /\ e.rel = i /\ e.by # p

\* the step deletes the last release of the tag
LastDeleted == TagReleases # {} /\ {i \in TagReleases : i \in DOMAIN releases'} = {}

\* C38: a release id an ensureRelease call has returned is not deleted afterwards
\* by another run, neither by the delete that follows its stabilization polls nor
\* by its cleanupDuplicateReleases, and the cleanups of concurrent runs do not
\* delete the last release of the tag
C38_ReturnedSurvives ==
    [][/\ \A p \in Procs : \A k \in 1..Len(ret[p]) : ~DeletedByAnother(p, ret[p][k])
       /\ ~LastDeleted]_vars

\* no step deletes a returned release
ReturnedKept ==
    [][\A p \in Procs : \A k \in 1..Len(ret[p]) : ~DeletedByAnother(p, ret[p][k])]_vars

\* no step deletes the last release of the tag
OneLeft == [][~LastDeleted]_vars

-----------------------------------------------------------------------------
(* The flags of an updated release *)

\* the step is the updateRelease of process p on release i
Updates(p, i) == \E e \in log' \ log : e.op = "update" /\ e.by = p /\ e.rel = i

\* the step is the createRelease of process p that made release i
Creates(p, i) == \E e \in log' \ log : e.op = "create" /\ e.by = p /\ e.rel = i

\* C39: an update of an existing release by ensureRelease leaves the release's
\* draft and prerelease flags and its tag as they are, whatever the draft and
\* prerelease arguments of the call; a release the call creates has the flags of
\* the arguments
C39_UpdateKeepsFlags ==
    [][\A p \in Procs :
          /\ \A i \in DOMAIN releases :
                Updates(p, i) =>
                    /\ releases'[i].draft = releases[i].draft
                    /\ releases'[i].prerelease = releases[i].prerelease
                    /\ releases'[i].tag = releases[i].tag
          /\ \A i \in DOMAIN releases' :
                Creates(p, i) =>
                    /\ releases'[i].draft = cfg[p].draft
                    /\ releases'[i].prerelease = cfg[p].prerelease
                    /\ releases'[i].tag = TagName]_vars

-----------------------------------------------------------------------------
(* The order of the steps of a run in tag mode *)

\* the step of run() a position belongs to: 1 ensureRelease, 2 its return and
\* the refresh of the release, 3 uploadReleaseAssets, 4 uploadUpdaterJson,
\* 5 cleanupDuplicateReleases, 6 the end of the run
StepOf(at, stage) ==
    IF at \in {"er_direct", "er_list", "er_update", "er_tagref", "er_getref", "er_create",
               "er_create2", "er_stab", "er_delete"} THEN 1
    ELSE IF at = "er_done" THEN 2
    ELSE IF at \in {"ul_filter", "ul_filtered"} THEN 3
    ELSE IF at \in {"ul_list", "ul_delasset", "ul_upload"}
    THEN (IF stage = "manifest" THEN 4 ELSE 3)
    ELSE IF at \in {"uj_getrel", "uj_list", "uj_download"} THEN 4
    ELSE IF at \in {"cl_list", "cl_keepassets", "cl_dupassets", "cl_delete"} THEN 5
    ELSE 6

\* the run has thrown
Thrown(p) == pc[p] \in {"run_fail", "er_fail"}

\* C40: a run in tag mode goes through ensureRelease, uploadReleaseAssets,
\* uploadUpdaterJson and cleanupDuplicateReleases in this order, the uploads and
\* the cleanup being given the id ensureRelease returned; the cleanup starts only
\* when every asset of the run is uploaded and, where a manifest is due, from the
\* end of uploadUpdaterJson; a run that has thrown does nothing more
C40_StepOrder ==
    [][/\ StepOf(pc'[1], loc'[1].stage) >= StepOf(pc[1], loc[1].stage)
       /\ StepOf(pc'[1], loc'[1].stage) \in {3, 4, 5} =>
             /\ ret'[1] # <<>>
             /\ loc'[1].rel = ret'[1][Len(ret'[1])]
       /\ (pc'[1] = "cl_list" /\ pc[1] # "cl_list") =>
             /\ loc'[1].uploaded = Range(cfg[1].names)
             /\ \A k \in 1..Len(cfg[1].names) :
                   \E e \in log' : e.op = "upload" /\ e.by = 1 /\ e.rel = loc'[1].rel
                                    /\ e.names = {cfg[1].names[k]}
             /\ (cfg[1].updaterJson /\ Len(cfg[1].names) > 0) =>
                   StepOf(pc[1], loc[1].stage) = 4
       /\ Thrown(1) => pc'[1] = pc[1] /\ loc'[1] = loc[1]]_vars

\* a finished run: the asset and the manifest went to the release ensureRelease
\* returned, and the cleanup then listed the releases of the tag, two by then,
\* to keep that release
C40_Witness ==
    /\ pc[1] = "run_done"
    /\ ret[1] = <<loc[1].rel>>
    /\ \E e \in log : e.op = "upload" /\ e.by = 1 /\ e.rel = loc[1].rel /\ e.names = {File(1)}
    /\ \E e \in log : e.op = "upload" /\ e.by = 1 /\ e.rel = loc[1].rel
                       /\ e.names = {UPDATER_JSON_ASSET_NAME}
    /\ loc[1].sorted # <<>>
    /\ loc[1].keep = loc[1].rel

\* a run whose upload failed at every attempt, the release being gone: it threw
\* in uploadReleaseAssets and never listed the releases for a cleanup
ThrownBeforeCleanup ==
    /\ pc[1] = "run_fail"
    /\ StepOf("ul_list", loc[1].stage) = 3
    /\ loc[1].att = maxAttempts(1)
    /\ loc[1].sorted = <<>>

====
